---- MODULE Spec2Model ----
(***************************************************************************)
(* Codebase_to_Txt (src-tauri): the rule engine (domain/rules.rs), the     *)
(* single-level scan and the selection walker (infrastructure/fs_scan.rs,  *)
(* application/scanner.rs, application/selection.rs) and the streaming     *)
(* exporter (application/exporter.rs).                                     *)
(*                                                                         *)
(* Strings are sequences of Unicode code points; Str turns a TLA+ string   *)
(* literal of printable ASCII into that form.  Byte strings (file          *)
(* contents, output) are sequences of 0..255.                              *)
(***************************************************************************)
EXTENDS Integers, Sequences, FiniteSets, TLC

VARIABLES
    fs,             \* the filesystem snapshot under the root: a set of entries
    config,         \* the ExportConfig of the request
    limits,         \* the ScanLimits of the request
    engine,         \* SpecRules: the RuleEngine built by from_config
    query,          \* SpecRules: the arguments of the last should_include call
    decision,       \* SpecRules: the Decision it returned
    file,           \* SpecStream: the selected file being exported (content, recorded size)
    pc,             \* SpecStream: where run_export is with that file
    pos,            \* SpecStream: the read position of file_handle
    remaining,      \* SpecStream: the byte budget, None as <<>> and Some(n) as <<n>>
    pending_cr,     \* SpecStream: a '\r' ended the last chunk
    utf8_tail,      \* SpecStream: the incomplete UTF-8 sequence carried over
    body,           \* SpecStream: the bytes write_file_content_streaming wrote
    probe_read,     \* SpecStream: the raw bytes the binary probe read
    stream_read,    \* SpecStream: the raw bytes the streaming loop read
    normalized_out, \* SpecStream: the bytes normalize_newline_bytes has put out so far
    block,          \* SpecStream: the bytes run_export wrote to the output for the file
    notes,          \* SpecStream: the notes pushed for the file
    exported_files, \* SpecStream: the counter of run_export
    skipped_files,  \* SpecStream: the counter of run_export
    input_failure,  \* SpecStream: the call on the file that failed: open, probe, rewind
    returned,       \* SpecStream: the Err run_export returned early, None as <<>>
    total_written,  \* SpecStream: the counter of the bytes written
    selection_files, \* SpecSelection: the files run_export is given, in order
    later,          \* SpecSelection: the selected files that come after file
    tree,           \* SpecWalk: what scan_root returned, None as <<>>
    batch,          \* SpecWalk: what scan_children returned, with the dirPath asked
    run,            \* SpecWalk: what collect_selected_files returned, with its engine
    first_output,   \* SpecWalk: the file the first run_export wrote
    second_output,  \* SpecWalk: the file the second run_export wrote
    output_path,    \* SpecOutput: the outputPath both run_export calls are given
    disk,           \* SpecOutput: what is at that path (kind, and who wrote each piece)
    export_pc,      \* SpecOutput: where each run_export call is
    export_error,   \* SpecOutput: the Err each call returned, None as <<>>
    seen_at_call,   \* SpecOutput: what was at the path when each call was made
    effects         \* SpecOutput: the filesystem operations each call has begun

requestVars == <<fs, config, limits>>

rulesVars == <<engine, query, decision>>

reportVars ==
    <<block, notes, exported_files, skipped_files, input_failure, returned, total_written,
      selection_files, later>>

streamVars ==
    <<file, pc, pos, remaining, pending_cr, utf8_tail, body, probe_read, stream_read,
      normalized_out, reportVars>>

walkVars == <<tree, batch, run, first_output, second_output>>

outputVars == <<output_path, disk, export_pc, export_error, seen_at_call, effects>>

vars == <<requestVars, rulesVars, streamVars, walkVars, outputVars>>

----------------------------------------------------------------------------
(* Strings *)

\* The characters string literals of this module use, each with its code point
Symbols == " !*-./:=?[]_"

SymbolCodes == <<32, 33, 42, 45, 46, 47, 58, 61, 63, 91, 93, 95>>

Digits == "0123456789"

Upper == "ABCDEFGHIJKLMNOPQRSTUVWXYZ"

Letters == "abcdefghijklmnopqrstuvwxyz"

IndexIn(table, ch) == CHOOSE i \in 1..Len(table) : SubSeq(table, i, i) = ch

Occurs(table, ch) == \E i \in 1..Len(table) : SubSeq(table, i, i) = ch

Code(ch) ==
    IF Occurs(Letters, ch) THEN 96 + IndexIn(Letters, ch)
    ELSE IF Occurs(Upper, ch) THEN 64 + IndexIn(Upper, ch)
    ELSE IF Occurs(Digits, ch) THEN 47 + IndexIn(Digits, ch)
    ELSE SymbolCodes[IndexIn(Symbols, ch)]

Str(s) == [i \in 1..Len(s) |-> Code(SubSeq(s, i, i))]

Min(S) == CHOOSE x \in S : \A y \in S : x <= y

Max(S) == CHOOSE x \in S : \A y \in S : y <= x

StartsWith(s, p) == Len(p) <= Len(s) /\ SubSeq(s, 1, Len(p)) = p

EndsWith(s, p) == Len(p) <= Len(s) /\ SubSeq(s, Len(s) - Len(p) + 1, Len(s)) = p

\* str::len(): the length in bytes of the UTF-8 encoding
Utf8Width(c) == IF c < 128 THEN 1 ELSE IF c < 2048 THEN 2 ELSE IF c < 65536 THEN 3 ELSE 4

RECURSIVE ByteLen(_)
ByteLen(s) == IF s = <<>> THEN 0 ELSE Utf8Width(Head(s)) + ByteLen(Tail(s))

\* char::to_lowercase on the code points used here (ASCII and Latin-1 letters)
LowerChar(c) ==
    IF (c >= 65 /\ c <= 90) \/ (c >= 192 /\ c <= 222 /\ c # 215) THEN c + 32 ELSE c

to_lowercase(s) == [i \in 1..Len(s) |-> LowerChar(s[i])]

\* Ord::cmp on str: lexicographic on bytes, which is lexicographic on code points
RECURSIVE StrLess(_, _)
StrLess(a, b) ==
    IF b = <<>> THEN FALSE
    ELSE IF a = <<>> THEN TRUE
    ELSE IF Head(a) # Head(b) THEN Head(a) < Head(b)
    ELSE StrLess(Tail(a), Tail(b))

\* char::is_whitespace, as str::trim uses it (ASCII part and U+00A0 excluded: White_Space)
Whitespace == {9, 10, 11, 12, 13, 32, 133, 160}

DropLeading(s, S) ==
    LET keep == {i \in 1..Len(s) : s[i] \notin S}
    IN  IF keep = {} THEN <<>> ELSE SubSeq(s, Min(keep), Len(s))

DropTrailing(s, S) ==
    LET keep == {i \in 1..Len(s) : s[i] \notin S}
    IN  IF keep = {} THEN <<>> ELSE SubSeq(s, 1, Max(keep))

trim(s) == DropTrailing(DropLeading(s, Whitespace), Whitespace)

replace(s, from, to) == [i \in 1..Len(s) |-> IF s[i] = from THEN to ELSE s[i]]

RECURSIVE trim_start_matches(_, _)
trim_start_matches(s, p) ==
    IF p # <<>> /\ StartsWith(s, p)
    THEN trim_start_matches(SubSeq(s, Len(p) + 1, Len(s)), p)
    ELSE s

trim_matches(s, c) == DropTrailing(DropLeading(s, {c}), {c})

Slash == 47

Backslash == 92

DotSlash == Str("./")

DotGit == Str(".git")

DotGitSlash == Str(".git/")

----------------------------------------------------------------------------
(* domain/rules.rs *)

normalize_key(input) ==
    trim_matches(trim_start_matches(replace(trim(input), Backslash, Slash), DotSlash), Slash)

is_hard_excluded(rel_path) ==
    LET normalized == normalize_key(rel_path)
    IN  normalized = DotGit \/ StartsWith(normalized, DotGitSlash)

\* globset::Glob with the default options, for patterns of literals, '?' and '*':
\* with literal_separator off (rules.rs) '*' and '?' also match '/', with it on
\* (the gitignore globs) they do not.
RECURSIVE GlobMatch(_, _, _)
GlobMatch(pat, s, literal_separator) ==
    IF pat = <<>> THEN s = <<>>
    ELSE IF Head(pat) = 42
         THEN \/ GlobMatch(Tail(pat), s, literal_separator)
              \/ /\ s # <<>>
                 /\ ~(literal_separator /\ Head(s) = Slash)
                 /\ GlobMatch(pat, Tail(s), literal_separator)
    ELSE IF Head(pat) = 63
         THEN /\ s # <<>>
              /\ ~(literal_separator /\ Head(s) = Slash)
              /\ GlobMatch(Tail(pat), Tail(s), literal_separator)
    ELSE s # <<>> /\ Head(s) = Head(pat) /\ GlobMatch(Tail(pat), Tail(s), literal_separator)

\* GlobSet::is_match over the compiled patterns
GlobSetIsMatch(set, rel_path) == \E i \in 1..Len(set) : GlobMatch(set[i], rel_path, FALSE)

\* Option<GlobSet>: None exactly when the pattern list is empty, so the list stands for it
compile_globset(patterns) == patterns

normalize_extensions(items) ==
    LET lowered == {to_lowercase(trim(items[i])) : i \in 1..Len(items)}
    IN  {IF StartsWith(v, <<46>>) THEN v ELSE <<46>> \o v : v \in lowered \ {<<>>}}

\* BTreeMap iteration is in ascending key order and collect keeps the last value
\* inserted for a key: of the raw keys with one normal form the greatest wins.
normalize_manual_selections(source) ==
    LET keys == {normalize_key(k) : k \in DOMAIN source}
        last(nk) == CHOOSE k \in DOMAIN source :
                        /\ normalize_key(k) = nk
                        /\ \A k2 \in DOMAIN source :
                               normalize_key(k2) = nk => (k2 = k \/ StrLess(k2, k))
    IN  [nk \in keys |-> source[last(nk)]]

\* Path::parent and Path::file_name on a '/'-separated relative path
Slashes(s) == {i \in 1..Len(s) : s[i] = Slash}

Parent(s) == IF Slashes(s) = {} THEN <<>> ELSE SubSeq(s, 1, Max(Slashes(s)) - 1)

Basename(s) == IF Slashes(s) = {} THEN s ELSE SubSeq(s, Max(Slashes(s)) + 1, Len(s))

DotGitignore == Str(".gitignore")

\* The text of each .gitignore file of the snapshots used here, as its lines
RootGitignoreText == <<Str("kept.ts"), Str("!z.txt")>>

NestedGitignoreText == <<Str("z.txt")>>

GitignoreText(path) ==
    IF path = DotGitignore THEN RootGitignoreText ELSE NestedGitignoreText

\* ignore::gitignore::GitignoreBuilder::add_line: '!' whitelists, a trailing '/' makes
\* the glob directory-only, a leading '/' or an inner '/' anchors it at the root.
ParseGitignoreLine(line) ==
    LET white == StartsWith(line, <<33>>)
        l1 == IF white THEN Tail(line) ELSE line
        only_dir == EndsWith(l1, <<Slash>>)
        l2 == IF only_dir THEN SubSeq(l1, 1, Len(l1) - 1) ELSE l1
        anchored == Slashes(l2) # {}
        l3 == IF StartsWith(l2, <<Slash>>) THEN Tail(l2) ELSE l2
    IN  [pattern |-> l3, is_whitelist |-> white, is_only_dir |-> only_dir, anchored |-> anchored]

RECURSIVE GlobsOfFiles(_)
GlobsOfFiles(order) ==
    IF order = <<>> THEN <<>>
    ELSE LET text == GitignoreText(Head(order))
         IN  [i \in 1..Len(text) |-> ParseGitignoreLine(text[i])] \o GlobsOfFiles(Tail(order))

GitignoreFiles(snapshot) ==
    {e.path : e \in {x \in snapshot : ~x.is_dir /\ Basename(x.path) = DotGitignore}}

Under(dir, path) == dir = <<>> \/ StartsWith(path, dir \o <<Slash>>)

\* The orders in which WalkDir::new(root) without sort_by can yield the .gitignore
\* files: read_dir order at every level, depth first, so the files below one
\* directory come together.
DiscoveryOrders(snapshot) ==
    LET files == GitignoreFiles(snapshot)
        n == Cardinality(files)
        together(o, d) ==
            LET at == {i \in 1..n : Under(d, o[i])}
            IN  at = {} \/ at = Min(at)..Max(at)
    IN  {o \in [1..n -> files] :
            /\ \A i, j \in 1..n : o[i] = o[j] => i = j
            /\ \A e \in snapshot : e.is_dir => together(o, e.path)}

NoGitignore == [some |-> FALSE, globs |-> <<>>]

\* rules.rs build_gitignore_matcher (and its copy in scanner.rs): the matcher is
\* Some as soon as one .gitignore file exists; the globs are added file by file in
\* discovery order.
build_gitignore_matcher(snapshot, order) ==
    IF order = <<>> THEN NoGitignore
    ELSE [some |-> TRUE, globs |-> GlobsOfFiles(order)]

\* Gitignore::matched_stripped: the last glob added that matches decides
GlobApplies(g, path, is_dir) ==
    /\ (~g.is_only_dir \/ is_dir)
    /\ IF g.anchored THEN GlobMatch(g.pattern, path, TRUE)
       ELSE GlobMatch(g.pattern, Basename(path), TRUE)

matched_stripped(gi, path, is_dir) ==
    LET hits == {i \in 1..Len(gi.globs) : GlobApplies(gi.globs[i], path, is_dir)}
    IN  IF hits = {} THEN "None"
        ELSE IF gi.globs[Max(hits)].is_whitelist THEN "Whitelist" ELSE "Ignore"

\* Gitignore::matched_path_or_any_parents: the path, then each parent as a directory
RECURSIVE matched_path_or_any_parents(_, _, _)
matched_path_or_any_parents(gi, path, is_dir) ==
    LET m == matched_stripped(gi, path, is_dir)
    IN  IF m # "None" THEN m
        ELSE IF Parent(path) = <<>> THEN "None"
        ELSE matched_path_or_any_parents(gi, Parent(path), TRUE)

from_config(snapshot, cfg, order) ==
    [ include_globs |-> compile_globset(cfg.include_globs),
      exclude_globs |-> compile_globset(cfg.exclude_globs),
      include_ext   |-> normalize_extensions(cfg.include_extensions),
      exclude_ext   |-> normalize_extensions(cfg.exclude_extensions),
      manual        |-> normalize_manual_selections(cfg.manual_selections),
      gitignore     |-> IF cfg.use_gitignore
                        THEN build_gitignore_matcher(snapshot, order)
                        ELSE NoGitignore,
      use_gitignore |-> cfg.use_gitignore ]

\* Option<bool> as "None" | "SomeTrue" | "SomeFalse"
matches_include_glob(e, rel_path) ==
    IF e.include_globs = <<>> THEN "None"
    ELSE IF GlobSetIsMatch(e.include_globs, rel_path) THEN "SomeTrue" ELSE "SomeFalse"

matches_exclude_glob(e, rel_path) ==
    e.exclude_globs # <<>> /\ GlobSetIsMatch(e.exclude_globs, rel_path)

matches_include_extension(e, rel_path) ==
    IF e.include_ext = {} THEN "None"
    ELSE IF \E ext \in e.include_ext : EndsWith(to_lowercase(rel_path), ext)
         THEN "SomeTrue" ELSE "SomeFalse"

matches_exclude_extension(e, rel_path) ==
    e.exclude_ext # {} /\ \E ext \in e.exclude_ext : EndsWith(to_lowercase(rel_path), ext)

\* key.chars().nth(n): the n-th code point counted from 0, when there is one
CharsNth(s, n) == IF n < Len(s) THEN s[n + 1] ELSE -1

\* Option<ManualSelectionState> as "None" | "Include" | "Exclude" | "Inherit"
manual_state_for(e, rel_path) ==
    LET key == normalize_key(rel_path)
        applies == {mk \in DOMAIN e.manual :
                       \/ key = mk
                       \/ /\ StartsWith(key, mk)
                          /\ CharsNth(key, ByteLen(mk)) = Slash}
    IN  IF key \in DOMAIN e.manual THEN e.manual[key]
        ELSE IF applies = {} THEN "None"
        ELSE e.manual[CHOOSE mk \in applies :
                          \A o \in applies : ByteLen(o) <= ByteLen(mk)]

\* should_include with the manual override consulted before the hard exclusion
should_include_manual_first(e, rel_path, abs_path, is_dir) ==
    LET manual_state == manual_state_for(e, rel_path)
        include_glob_match == matches_include_glob(e, rel_path)
        include_ext_match == IF is_dir THEN "None" ELSE matches_include_extension(e, rel_path)
    IN  IF manual_state = "Include" THEN "Include"
        ELSE IF manual_state = "Exclude" THEN "Exclude"
        ELSE IF is_hard_excluded(rel_path) THEN "Exclude"
        ELSE IF include_glob_match = "SomeFalse" THEN "Exclude"
        ELSE IF include_ext_match = "SomeFalse" THEN "Exclude"
        ELSE IF include_glob_match = "SomeTrue" \/ include_ext_match = "SomeTrue" THEN "Include"
        ELSE IF ~is_dir /\ matches_exclude_extension(e, rel_path) THEN "Exclude"
        ELSE IF matches_exclude_glob(e, rel_path) THEN "Exclude"
        ELSE IF /\ e.use_gitignore
                /\ e.gitignore.some
                /\ matched_path_or_any_parents(e.gitignore, abs_path, is_dir) = "Ignore"
             THEN "Exclude"
        ELSE "Include"

\* should_include with the exclude tiers consulted before the include rules return
should_include_excludes_first(e, rel_path, abs_path, is_dir) ==
    LET manual_state == manual_state_for(e, rel_path)
        include_glob_match == matches_include_glob(e, rel_path)
        include_ext_match == IF is_dir THEN "None" ELSE matches_include_extension(e, rel_path)
    IN  IF is_hard_excluded(rel_path) THEN "Exclude"
        ELSE IF manual_state = "Include" THEN "Include"
        ELSE IF manual_state = "Exclude" THEN "Exclude"
        ELSE IF include_glob_match = "SomeFalse" THEN "Exclude"
        ELSE IF include_ext_match = "SomeFalse" THEN "Exclude"
        ELSE IF ~is_dir /\ matches_exclude_extension(e, rel_path) THEN "Exclude"
        ELSE IF matches_exclude_glob(e, rel_path) THEN "Exclude"
        ELSE IF include_glob_match = "SomeTrue" \/ include_ext_match = "SomeTrue" THEN "Include"
        ELSE IF /\ e.use_gitignore
                /\ e.gitignore.some
                /\ matched_path_or_any_parents(e.gitignore, abs_path, is_dir) = "Ignore"
             THEN "Exclude"
        ELSE "Include"

\* should_include with the manual override consulted after the include rules
should_include_rules_first(e, rel_path, abs_path, is_dir) ==
    LET manual_state == manual_state_for(e, rel_path)
        include_glob_match == matches_include_glob(e, rel_path)
        include_ext_match == IF is_dir THEN "None" ELSE matches_include_extension(e, rel_path)
    IN  IF is_hard_excluded(rel_path) THEN "Exclude"
        ELSE IF include_glob_match = "SomeFalse" THEN "Exclude"
        ELSE IF include_ext_match = "SomeFalse" THEN "Exclude"
        ELSE IF include_glob_match = "SomeTrue" \/ include_ext_match = "SomeTrue" THEN "Include"
        ELSE IF manual_state = "Include" THEN "Include"
        ELSE IF manual_state = "Exclude" THEN "Exclude"
        ELSE IF ~is_dir /\ matches_exclude_extension(e, rel_path) THEN "Exclude"
        ELSE IF matches_exclude_glob(e, rel_path) THEN "Exclude"
        ELSE IF /\ e.use_gitignore
                /\ e.gitignore.some
                /\ matched_path_or_any_parents(e.gitignore, abs_path, is_dir) = "Ignore"
             THEN "Exclude"
        ELSE "Include"

should_include(e, rel_path, abs_path, is_dir) ==
    LET manual_state == manual_state_for(e, rel_path)
        include_glob_match == matches_include_glob(e, rel_path)
        include_ext_match == IF is_dir THEN "None" ELSE matches_include_extension(e, rel_path)
    IN  IF is_hard_excluded(rel_path) THEN "Exclude"
        ELSE IF manual_state = "Include" THEN "Include"
        ELSE IF manual_state = "Exclude" THEN "Exclude"
        ELSE IF include_glob_match = "SomeFalse" THEN "Exclude"
        ELSE IF include_ext_match = "SomeFalse" THEN "Exclude"
        ELSE IF include_glob_match = "SomeTrue" \/ include_ext_match = "SomeTrue" THEN "Include"
        ELSE IF ~is_dir /\ matches_exclude_extension(e, rel_path) THEN "Exclude"
        ELSE IF matches_exclude_glob(e, rel_path) THEN "Exclude"
        ELSE IF /\ e.use_gitignore
                /\ e.gitignore.some
                /\ matched_path_or_any_parents(e.gitignore, abs_path, is_dir) = "Ignore"
             THEN "Exclude"
        ELSE "Include"

----------------------------------------------------------------------------
(* application/exporter.rs: the streaming of one file *)

CR == 13

LF == 10

\* The size unit of max_file_size_kb, 1024 bytes in the code, scaled down here
BytesPerKB == 2

\* The binary probe reads one unit: let mut probe = [0u8; 1024]
ProbeSize == BytesPerKB

STREAM_CHUNK_SIZE == 16 * BytesPerKB

\* config.max_file_size_kb.saturating_mul(1024)
max_bytes_of(cfg) == cfg.max_file_size_kb * BytesPerKB

MinOf(a, b) == IF a < b THEN a ELSE b

MaxOf(a, b) == IF a < b THEN b ELSE a

\* content_inspector::inspect(..).is_binary() on bytes that start with no byte-order
\* mark and no PDF or PNG signature: a NUL byte makes them binary
is_binary(probe) == \E i \in 1..Len(probe) : probe[i] = 0

\* normalize_newline_bytes: the loop from index, with the output so far
RECURSIVE NormalizeFrom(_, _, _)
NormalizeFrom(input, index, output) ==
    IF index > Len(input) THEN [output |-> output, pending_cr |-> FALSE]
    ELSE IF input[index] = CR
         THEN IF index + 1 <= Len(input)
              THEN NormalizeFrom(input,
                                 IF input[index + 1] = LF THEN index + 2 ELSE index + 1,
                                 Append(output, LF))
              ELSE [output |-> output, pending_cr |-> TRUE]
    ELSE NormalizeFrom(input, index + 1, Append(output, input[index]))

\* normalize_newline_bytes collapsing "\r\n" only: a lone '\r' goes through
RECURSIVE NormalizeCrlfOnlyFrom(_, _, _)
NormalizeCrlfOnlyFrom(input, index, output) ==
    IF index > Len(input) THEN [output |-> output, pending_cr |-> FALSE]
    ELSE IF input[index] = CR /\ index + 1 <= Len(input) /\ input[index + 1] = LF
         THEN NormalizeCrlfOnlyFrom(input, index + 2, Append(output, LF))
    ELSE NormalizeCrlfOnlyFrom(input, index + 1, Append(output, input[index]))

normalize_newline_bytes_crlf_only(input, pending) == NormalizeCrlfOnlyFrom(input, 1, <<>>)

\* normalize_newline_bytes pushing the '\n' of a carried '\r' without looking at
\* the first byte of the next chunk
normalize_newline_bytes_keeps_lf(input, pending) ==
    IF pending THEN NormalizeFrom(input, 1, <<LF>>) ELSE NormalizeFrom(input, 1, <<>>)

normalize_newline_bytes(input, pending) ==
    IF pending
    THEN IF input # <<>> /\ Head(input) = LF
         THEN NormalizeFrom(input, 2, <<LF>>)
         ELSE NormalizeFrom(input, 1, <<LF>>)
    ELSE NormalizeFrom(input, 1, <<>>)

\* UTF-8 as core::str validates it
IsCont(b) == b >= 128 /\ b <= 191

SecondByteOk(lead, b) ==
    IF lead = 224 THEN b >= 160 /\ b <= 191
    ELSE IF lead = 237 THEN b >= 128 /\ b <= 159
    ELSE IF lead = 240 THEN b >= 144 /\ b <= 191
    ELSE IF lead = 244 THEN b >= 128 /\ b <= 143
    ELSE IsCont(b)

\* The sequence that starts at bytes[i]: a valid scalar of len bytes, an invalid
\* sequence of len bytes (Utf8Error::error_len = Some(len)), or one cut short by the
\* end of the input (error_len = None)
Utf8Step(bytes, i) ==
    LET b == bytes[i]
        n == Len(bytes)
        width == IF b < 128 THEN 1
                 ELSE IF b >= 194 /\ b <= 223 THEN 2
                 ELSE IF b >= 224 /\ b <= 239 THEN 3
                 ELSE IF b >= 240 /\ b <= 244 THEN 4
                 ELSE 0
    IN  IF width = 0 THEN [kind |-> "invalid", len |-> 1]
        ELSE IF width = 1 THEN [kind |-> "ok", len |-> 1]
        ELSE IF i + 1 > n THEN [kind |-> "incomplete", len |-> 1]
        ELSE IF ~SecondByteOk(b, bytes[i + 1]) THEN [kind |-> "invalid", len |-> 1]
        ELSE IF width = 2 THEN [kind |-> "ok", len |-> 2]
        ELSE IF i + 2 > n THEN [kind |-> "incomplete", len |-> 2]
        ELSE IF ~IsCont(bytes[i + 2]) THEN [kind |-> "invalid", len |-> 2]
        ELSE IF width = 3 THEN [kind |-> "ok", len |-> 3]
        ELSE IF i + 3 > n THEN [kind |-> "incomplete", len |-> 3]
        ELSE IF ~IsCont(bytes[i + 3]) THEN [kind |-> "invalid", len |-> 3]
        ELSE [kind |-> "ok", len |-> 4]

\* std::str::from_utf8: Ok, or the first error with valid_up_to and error_len
\* (error_len = None as 0)
RECURSIVE Utf8Check(_, _)
Utf8Check(bytes, i) ==
    IF i > Len(bytes) THEN [ok |-> TRUE, valid_up_to |-> Len(bytes), error_len |-> 0]
    ELSE LET s == Utf8Step(bytes, i)
         IN  IF s.kind = "ok" THEN Utf8Check(bytes, i + s.len)
             ELSE [ok |-> FALSE, valid_up_to |-> i - 1,
                   error_len |-> IF s.kind = "incomplete" THEN 0 ELSE s.len]

from_utf8(bytes) == Utf8Check(bytes, 1)

\* U+FFFD encoded
REPLACEMENT == <<239, 191, 189>>

\* String::from_utf8_lossy: every invalid or cut-short sequence becomes one U+FFFD
RECURSIVE LossyFrom(_, _)
LossyFrom(bytes, i) ==
    IF i > Len(bytes) THEN <<>>
    ELSE LET s == Utf8Step(bytes, i)
         IN  IF s.kind = "ok" THEN SubSeq(bytes, i, i + s.len - 1) \o LossyFrom(bytes, i + s.len)
             ELSE IF s.kind = "invalid" THEN REPLACEMENT \o LossyFrom(bytes, i + s.len)
             ELSE REPLACEMENT

from_utf8_lossy(bytes) == LossyFrom(bytes, 1)

\* write_utf8_lossy_raw: what is written for bytes
write_utf8_lossy_raw(bytes) == from_utf8_lossy(bytes)

\* write_utf8_lossy_segment without utf8_tail.clear(): the old tail stays in front
write_utf8_lossy_segment_keeps_tail(segment, tail) ==
    IF segment = <<>> THEN [written |-> <<>>, utf8_tail |-> tail]
    ELSE LET merged == tail \o segment
             r == from_utf8(merged)
             split_index == IF r.ok THEN Len(merged)
                            ELSE IF r.error_len = 0 THEN r.valid_up_to
                            ELSE Len(merged)
         IN  [written |-> write_utf8_lossy_raw(SubSeq(merged, 1, split_index)),
              utf8_tail |-> tail \o SubSeq(merged, split_index + 1, Len(merged))]

\* write_utf8_lossy_segment keeping everything from the first error on, whether
\* the error is conclusive or not
write_utf8_lossy_segment_from_first_error(segment, tail) ==
    IF segment = <<>> THEN [written |-> <<>>, utf8_tail |-> tail]
    ELSE LET merged == tail \o segment
             r == from_utf8(merged)
             split_index == IF r.ok THEN Len(merged) ELSE r.valid_up_to
         IN  [written |-> write_utf8_lossy_raw(SubSeq(merged, 1, split_index)),
              utf8_tail |-> SubSeq(merged, split_index + 1, Len(merged))]

\* write_utf8_lossy_segment: what is written and the tail that is kept
write_utf8_lossy_segment(segment, tail) ==
    IF segment = <<>> THEN [written |-> <<>>, utf8_tail |-> tail]
    ELSE LET merged == tail \o segment
             r == from_utf8(merged)
             split_index == IF r.ok THEN Len(merged)
                            ELSE IF r.error_len = 0 THEN r.valid_up_to
                            ELSE Len(merged)
         IN  [written |-> write_utf8_lossy_raw(SubSeq(merged, 1, split_index)),
              utf8_tail |-> SubSeq(merged, split_index + 1, Len(merged))]

----------------------------------------------------------------------------
(* Filesystem snapshots and configurations the requests are drawn from *)

Dir(path) == [path |-> path, is_dir |-> TRUE]

File(path) == [path |-> path, is_dir |-> FALSE]

Snapshots ==
    { {},
      {File(Str("a.txt"))},
      {Dir(Str("ADir")), File(Str("ADir/a.txt")), Dir(Str("bDir")), File(Str("bDir/z.txt")),
       File(Str("Beta.txt")), File(Str("a.txt"))},
      {Dir(DotGit), File(Str(".git/config")), File(Str("kept.ts"))},
      {File(DotGitignore), File(Str("kept.ts")), File(Str("a.txt"))},
      {File(DotGitignore), Dir(Str("bDir")), File(Str("bDir/.gitignore")),
       File(Str("bDir/z.txt")), File(Str("kept.ts"))},
      {Dir(Str("bDir")), Dir(Str("bDir/sub")), File(Str("bDir/sub/z.txt")), File(Str("kept.ts"))} }

\* U+00E9, one code point that UTF-8 encodes in two bytes
EAcute == <<233>>

ManualChoices ==
    { <<>>,
      (Str("kept.ts") :> "Exclude") @@ (Str(".git/config") :> "Include"),
      (Str("kept.ts") :> "Include") @@ (DotGit :> "Include") @@ (Str("a.txt") :> "Exclude"),
      (Str(" ./bDir/ ") :> "Exclude") @@ (Str("bDir/z.txt") :> "Inherit"),
      (Str("bDir") :> "Include") @@ (Str("bDir/sub") :> "Exclude") @@ (Str("b") :> "Exclude")
          @@ (EAcute :> "Exclude") @@ (EAcute \o <<97>> :> "Inherit") }

IncludeGlobChoices == { <<>>, <<Str("*.ts")>>, <<Str("*.txt"), Str("bDir/*")>> }

ExcludeGlobChoices == { <<>>, <<Str("*.ts"), Str("bDir/*")>> }

IncludeExtChoices == { <<>>, <<Str("ts")>>, <<Str(" .TXT "), Str("  ")>> }

ExcludeExtChoices == { <<>>, <<Str(".ts"), Str("TXT")>> }

DefaultLimits == [max_files |-> 100000, max_depth |-> 64]

RuleConfigs ==
    [ use_gitignore : BOOLEAN,
      include_globs : IncludeGlobChoices,
      exclude_globs : ExcludeGlobChoices,
      include_extensions : IncludeExtChoices,
      exclude_extensions : ExcludeExtChoices,
      max_file_size_kb : {256},
      large_file_strategy : {"Truncate"},
      manual_selections : ManualChoices ]

\* The rule engine reads the snapshot only through its .gitignore files
RuleSnapshots == {s \in Snapshots : File(Str("kept.ts")) \in s /\ Dir(DotGit) \notin s}

QueryPaths ==
    { DotGit, Str(".git/config"), Str(".gitx"), Str(" ./.git/ "),
      DotGit \o <<Backslash>> \o Str("config"),
      Str("kept.ts"), Str("a.txt"), Str("Beta.txt"), Str("README.TXT"),
      Str("bDir"), Str("bDir/z.txt"), Str("bDir/kept.ts"), Str("bDir/sub"),
      Str("bDir/sub/z.txt"), Str(" ./bDir/ "),
      EAcute \o Str("/x"), EAcute \o Str("a/b") }

----------------------------------------------------------------------------
(* SpecRules: one request builds its RuleEngine and asks it about paths *)

IdleRules == engine = <<>> /\ query = <<>> /\ decision = "None"

IdleStream ==
    /\ file = [content |-> <<>>, size |-> 0, rel_path |-> <<>>]
    /\ pc = "idle"
    /\ pos = 0
    /\ remaining = <<>>
    /\ pending_cr = FALSE
    /\ utf8_tail = <<>>
    /\ body = <<>>
    /\ probe_read = 0
    /\ stream_read = 0
    /\ normalized_out = <<>>
    /\ block = <<>>
    /\ notes = <<>>
    /\ exported_files = 0
    /\ skipped_files = 0
    /\ input_failure = "none"
    /\ returned = <<>>
    /\ total_written = 0
    /\ selection_files = <<>>
    /\ later = <<>>

IdleWalk ==
    /\ tree = <<>>
    /\ batch = <<>>
    /\ run = <<>>
    /\ first_output = <<>>
    /\ second_output = <<>>

\* The two run_export calls that may be in flight at once
Exporters == {1, 2}

IdleOutput ==
    /\ output_path = <<>>
    /\ disk = [kind |-> "absent", content |-> <<>>]
    /\ export_pc = [p \in Exporters |-> "idle"]
    /\ export_error = [p \in Exporters |-> <<>>]
    /\ seen_at_call = [p \in Exporters |-> "absent"]
    /\ effects = [p \in Exporters |-> {}]

InitRules ==
    /\ fs \in RuleSnapshots
    /\ config \in RuleConfigs
    /\ limits = DefaultLimits
    /\ IdleRules
    /\ IdleStream
    /\ IdleWalk
    /\ IdleOutput

FromConfig ==
    /\ engine = <<>>
    /\ \E order \in DiscoveryOrders(fs) : engine' = <<from_config(fs, config, order)>>
    /\ UNCHANGED <<outputVars, requestVars, query, decision, streamVars, walkVars>>

\* should_include takes &self and changes nothing: one call per behaviour shows them all
ShouldInclude ==
    /\ engine # <<>>
    /\ query = <<>>
    /\ \E rel_path \in QueryPaths, is_dir \in BOOLEAN :
          /\ query' = <<[rel_path |-> rel_path, is_dir |-> is_dir]>>
          /\ decision' = should_include(engine[1], rel_path, rel_path, is_dir)
    /\ UNCHANGED <<outputVars, requestVars, engine, streamVars, walkVars>>

NextRules == FromConfig \/ ShouldInclude

SpecRules == InitRules /\ [][NextRules]_vars

----------------------------------------------------------------------------
(* SpecStream: run_export's loop body for one selected file (exporter.rs:82-152) *)

MaxLen == 3

MaxKB == 1

\* NUL, LF, CR, 'a', a continuation byte, a two-byte lead, an invalid byte
Bytes == {0, LF, CR, 97, 169, 195, 255}

RECURSIVE SeqsUpTo(_, _)
SeqsUpTo(S, n) ==
    IF n = 0 THEN {<<>>}
    ELSE LET shorter == SeqsUpTo(S, n - 1)
         IN  shorter \cup {Append(s, b) : s \in {x \in shorter : Len(x) = n - 1}, b \in S}

Contents == SeqsUpTo(Bytes, MaxLen)

ATxt == Str("a.txt")

\* SelectedFile.size is what entry.metadata() reported during the walk
\* (selection.rs:70): the length of a regular file, 0 when metadata() failed; the
\* content is what File::open(abs_path) reads at export time.
SelectedFiles ==
    UNION {{[content |-> c, size |-> s, rel_path |-> ATxt] : s \in {Len(c), 0}} : c \in Contents}

StreamConfigs ==
    [ use_gitignore : {FALSE},
      include_globs : {<<>>},
      exclude_globs : {<<>>},
      include_extensions : {<<>>},
      exclude_extensions : {<<>>},
      max_file_size_kb : 0..MaxKB,
      large_file_strategy : {"Truncate", "Skip"},
      manual_selections : {<<>>} ]

InitStream ==
    /\ fs = {}
    /\ config \in StreamConfigs
    /\ limits = DefaultLimits
    /\ IdleRules
    /\ IdleWalk
    /\ IdleOutput
    /\ file \in SelectedFiles
    /\ pc = "open"
    /\ pos = 0
    /\ remaining = <<>>
    /\ pending_cr = FALSE
    /\ utf8_tail = <<>>
    /\ body = <<>>
    /\ probe_read = 0
    /\ stream_read = 0
    /\ normalized_out = <<>>
    /\ block = <<>>
    /\ notes = <<>>
    /\ exported_files = 0
    /\ skipped_files = 0
    /\ input_failure = "none"
    /\ returned = <<>>
    /\ total_written = 0
    /\ selection_files = <<file>>
    /\ later = <<>>

\* format!("{}", n) for an unsigned integer
RECURSIVE ToDecimal(_)
ToDecimal(n) == IF n < 10 THEN <<48 + n>> ELSE ToDecimal(n \div 10) \o <<48 + (n % 10)>>

write_line(line) == line \o <<LF>>

\* write_line adding line.len() and nothing for the newline
counted_line_without_newline(line) == Len(line)

\* write_line and write_newline: what they add to total_written
counted_line(line) == Len(line) + 1

StructureHeader == Str("=== STRUCTURE ===")

FileHeader == Str("=== FILE: ")

FileFooter == Str("=== END FILE: ")

HeaderEnd == Str(" ===")

TruncatedAt == Str("[TRUNCATED at ")

TruncatedBytes == Str(" bytes]")

\* The two tests with >= in place of >
skips_large_from_cap(cfg, size) ==
    cfg.large_file_strategy = "Skip" /\ size >= max_bytes_of(cfg)

truncates_from_cap(cfg, size) ==
    cfg.large_file_strategy = "Truncate" /\ size >= max_bytes_of(cfg)

\* exporter.rs:106: the Skip strategy meets a file recorded as larger than the cap
skips_large(cfg, size) ==
    cfg.large_file_strategy = "Skip" /\ size > max_bytes_of(cfg)

\* exporter.rs:121: the Truncate strategy meets such a file
truncates(cfg, size) ==
    cfg.large_file_strategy = "Truncate" /\ size > max_bytes_of(cfg)

\* The rel_path of the selected file
\* selected.rel_path
SelectedPath == file.rel_path

SkippedOpen == "Skipped '{}': failed to open ({err})"

SkippedBinary == "Skipped '{}': binary file"

SkippedLarge == "Skipped '{}': exceeds maxFileSizeKB"

TruncatedNote == "Truncated '{}': wrote first {} bytes"

FailedInspect == "Failed to inspect file '{}': {e}"

FailedRewind == "Failed to rewind file '{}': {e}"

\* format!(text, selected.rel_path) and format!(text, selected.rel_path, max_bytes)
Note(text) == [text |-> text, rel_path |-> SelectedPath]

NoteBytes(text, n) == [text |-> text, rel_path |-> SelectedPath, bytes |-> n]

\* exporter.rs:84-91: File::open fails, the file is skipped
OpenFails ==
    /\ pc = "open"
    /\ pc' = "skipped"
    /\ input_failure' = "open"
    /\ skipped_files' = skipped_files + 1
    /\ notes' = Append(notes, Note(SkippedOpen))
    /\ UNCHANGED <<total_written, selection_files, later>>
    /\ UNCHANGED <<outputVars, requestVars, rulesVars, walkVars, normalized_out, file, pos,
                   remaining, pending_cr, utf8_tail, body, probe_read, stream_read, block,
                   exported_files, returned>>

\* exporter.rs:93-96: the probe read fails and `?` returns the error
ProbeFails ==
    /\ pc = "open"
    /\ pc' = "failed"
    /\ input_failure' = "probe"
    /\ returned' = <<Note(FailedInspect)>>
    /\ UNCHANGED <<total_written, selection_files, later>>
    /\ UNCHANGED <<outputVars, requestVars, rulesVars, walkVars, normalized_out, file, pos,
                   remaining, pending_cr, utf8_tail, body, probe_read, stream_read, block,
                   notes, exported_files, skipped_files>>

\* file_handle.read(&mut probe): the first ProbeSize bytes
Probe == SubSeq(file.content, 1, MinOf(Len(file.content), ProbeSize))

\* exporter.rs:92-100: the probe finds the file binary, the file is skipped
SkipBinary ==
    /\ pc = "open"
    /\ is_binary(Probe)
    /\ pc' = "skipped"
    /\ probe_read' = Len(Probe)
    /\ skipped_files' = skipped_files + 1
    /\ notes' = Append(notes, Note(SkippedBinary))
    /\ UNCHANGED <<total_written, selection_files, later>>
    /\ UNCHANGED <<outputVars, requestVars, rulesVars, walkVars, normalized_out, file, pos,
                   remaining, pending_cr, utf8_tail, body, stream_read, block, exported_files,
                   input_failure, returned>>

\* exporter.rs:103-105: the probe found text, the rewind fails and `?` returns
RewindFails ==
    /\ pc = "open"
    /\ ~is_binary(Probe)
    /\ pc' = "failed"
    /\ input_failure' = "rewind"
    /\ probe_read' = Len(Probe)
    /\ returned' = <<Note(FailedRewind)>>
    /\ UNCHANGED <<total_written, selection_files, later>>
    /\ UNCHANGED <<outputVars, requestVars, rulesVars, walkVars, normalized_out, file, pos,
                   remaining, pending_cr, utf8_tail, body, stream_read, block, notes,
                   exported_files, skipped_files>>

\* SkipLarge leaving the counter as it is
SkipLargeUncounted ==
    /\ pc = "open"
    /\ ~is_binary(Probe)
    /\ skips_large(config, file.size)
    /\ pc' = "skipped"
    /\ probe_read' = Len(Probe)
    /\ pos' = 0
    /\ notes' = Append(notes, Note(SkippedLarge))
    /\ UNCHANGED <<total_written, selection_files, later, skipped_files>>
    /\ UNCHANGED <<outputVars, requestVars, rulesVars, walkVars, normalized_out, file,
                   remaining, pending_cr, utf8_tail, body, stream_read, block, exported_files,
                   input_failure, returned>>

\* exporter.rs:102-113: rewind, then the Skip strategy skips a file recorded as large
SkipLarge ==
    /\ pc = "open"
    /\ ~is_binary(Probe)
    /\ skips_large(config, file.size)
    /\ pc' = "skipped"
    /\ probe_read' = Len(Probe)
    /\ pos' = 0
    /\ skipped_files' = skipped_files + 1
    /\ notes' = Append(notes, Note(SkippedLarge))
    /\ UNCHANGED <<total_written, selection_files, later>>
    /\ UNCHANGED <<outputVars, requestVars, rulesVars, walkVars, normalized_out, file,
                   remaining, pending_cr, utf8_tail, body, stream_read, block, exported_files,
                   input_failure, returned>>

\* exporter.rs:102-127,140 and 245-249: rewind, the header line, and the streaming
\* starts with a budget when the Truncate strategy meets a file recorded as large
BeginFile ==
    /\ pc = "open"
    /\ ~is_binary(Probe)
    /\ ~skips_large(config, file.size)
    /\ pc' = "stream"
    /\ probe_read' = Len(Probe)
    /\ pos' = 0
    /\ remaining' = IF truncates(config, file.size)
                    THEN <<max_bytes_of(config)>>
                    ELSE <<>>
    /\ block' = block \o write_line(FileHeader \o SelectedPath \o HeaderEnd)
    /\ total_written' = total_written + counted_line(FileHeader \o SelectedPath \o HeaderEnd)
    /\ UNCHANGED <<selection_files, later>>
    /\ UNCHANGED <<outputVars, requestVars, rulesVars, walkVars, normalized_out, file,
                   pending_cr, utf8_tail, body, stream_read, notes, exported_files,
                   skipped_files, input_failure, returned>>

\* to_read without the budget: every read asks for a whole chunk
to_read_ignores_budget == STREAM_CHUNK_SIZE

to_read == IF remaining = <<>> THEN STREAM_CHUNK_SIZE ELSE MinOf(remaining[1], STREAM_CHUNK_SIZE)

\* exporter.rs:251-276: one round of the loop that reads read_len > 0 bytes (read may
\* return fewer bytes than asked for)
ReadChunk ==
    /\ pc = "stream"
    /\ remaining # <<0>>
    /\ pos < Len(file.content)
    /\ \E read_len \in 1..MinOf(to_read, Len(file.content) - pos) :
          LET chunk == SubSeq(file.content, pos + 1, pos + read_len)
              norm == normalize_newline_bytes(chunk, pending_cr)
              seg == write_utf8_lossy_segment(norm.output, utf8_tail)
          IN  /\ pos' = pos + read_len
              /\ stream_read' = stream_read + read_len
              /\ remaining' = IF remaining = <<>> THEN <<>>
                              ELSE <<MaxOf(remaining[1] - read_len, 0)>>
              /\ pending_cr' = norm.pending_cr
              /\ utf8_tail' = seg.utf8_tail
              /\ body' = body \o seg.written
              /\ block' = block \o seg.written
              /\ normalized_out' = normalized_out \o norm.output
              /\ total_written' = total_written + Len(seg.written)
    /\ UNCHANGED <<selection_files, later>>
    /\ UNCHANGED <<outputVars, requestVars, rulesVars, walkVars, file, pc, probe_read, notes,
                   exported_files, skipped_files, input_failure, returned>>

\* exporter.rs:253, 261-263 and 278-286: the loop ends on a spent budget or at the
\* end of the file; a pending '\r' and the tail are flushed. Then exporter.rs:129-151:
\* the newline, the marker line and the note of a truncated file, the footer, the
\* blank line, the counter
FinishFile ==
    /\ pc = "stream"
    /\ remaining = <<0>> \/ pos = Len(file.content)
    /\ LET seg == IF pending_cr THEN write_utf8_lossy_segment(<<LF>>, utf8_tail)
                  ELSE [written |-> <<>>, utf8_tail |-> utf8_tail]
           flushed == seg.written \o write_utf8_lossy_raw(seg.utf8_tail)
           max_bytes == max_bytes_of(config)
           truncate == truncates(config, file.size)
       IN  /\ utf8_tail' = seg.utf8_tail
           /\ body' = body \o flushed
           /\ block' = block \o flushed \o <<LF>>
                       \o (IF truncate
                           THEN write_line(TruncatedAt \o ToDecimal(max_bytes) \o TruncatedBytes)
                           ELSE <<>>)
                       \o write_line(FileFooter \o SelectedPath \o HeaderEnd)
                       \o write_line(<<>>)
           /\ total_written' =
                  total_written + Len(flushed) + 1
                  + (IF truncate
                     THEN counted_line(TruncatedAt \o ToDecimal(max_bytes) \o TruncatedBytes)
                     ELSE 0)
                  + counted_line(FileFooter \o SelectedPath \o HeaderEnd)
                  + counted_line(<<>>)
           /\ notes' = IF truncate THEN Append(notes, NoteBytes(TruncatedNote, max_bytes))
                       ELSE notes
    /\ normalized_out' = normalized_out \o (IF pending_cr THEN <<LF>> ELSE <<>>)
    /\ exported_files' = exported_files + 1
    /\ pc' = "done"
    /\ UNCHANGED <<selection_files, later>>
    /\ UNCHANGED <<outputVars, requestVars, rulesVars, walkVars, file, pos, remaining,
                   pending_cr, probe_read, stream_read, skipped_files, input_failure,
                   returned>>

NextStream ==
    \/ OpenFails
    \/ ProbeFails
    \/ SkipBinary
    \/ RewindFails
    \/ SkipLarge
    \/ BeginFile
    \/ ReadChunk
    \/ FinishFile

SpecStream == InitStream /\ [][NextStream]_vars

----------------------------------------------------------------------------
(* The streaming of one text file that holds characters of up to four bytes *)

MaxTextLen == 4

TextKB == 2

\* 'a', a continuation byte, a two-byte lead, a four-byte lead, an invalid byte
TextBytes == {97, 159, 195, 240, 255}

TextFiles ==
    {[content |-> c, size |-> Len(c), rel_path |-> ATxt] : c \in SeqsUpTo(TextBytes, MaxTextLen)}

TextConfigs ==
    {c \in StreamConfigs : c.large_file_strategy = "Truncate" /\ c.max_file_size_kb = MaxKB}
        \cup {[c EXCEPT !.max_file_size_kb = TextKB] :
                c \in {x \in StreamConfigs : x.large_file_strategy = "Truncate"}}

InitText ==
    /\ fs = {}
    /\ config \in TextConfigs
    /\ limits = DefaultLimits
    /\ IdleRules
    /\ IdleWalk
    /\ IdleOutput
    /\ file \in TextFiles
    /\ pc = "open"
    /\ pos = 0
    /\ remaining = <<>>
    /\ pending_cr = FALSE
    /\ utf8_tail = <<>>
    /\ body = <<>>
    /\ probe_read = 0
    /\ stream_read = 0
    /\ normalized_out = <<>>
    /\ block = <<>>
    /\ notes = <<>>
    /\ exported_files = 0
    /\ skipped_files = 0
    /\ input_failure = "none"
    /\ returned = <<>>
    /\ total_written = 0
    /\ selection_files = <<file>>
    /\ later = <<>>

NextText ==
    \/ BeginFile
    \/ ReadChunk
    \/ FinishFile

SpecText == InitText /\ [][NextText]_vars

----------------------------------------------------------------------------
(* infrastructure/sorting.rs, fs_scan.rs and pathing.rs; application/scanner.rs
   and selection.rs. An absolute path is root joined with the relative path, so the
   relative path stands for it. *)

\* compare_entries(a, b) = Ordering::Less
compare_entries(path_a, is_dir_a, path_b, is_dir_b) ==
    IF is_dir_a /\ ~is_dir_b THEN TRUE
    ELSE IF ~is_dir_a /\ is_dir_b THEN FALSE
    ELSE LET a == to_lowercase(path_a)
             b == to_lowercase(path_b)
         IN  IF a = b THEN StrLess(path_a, path_b) ELSE StrLess(a, b)

\* sort_by(compare_entries) over entries of distinct paths
SortEntries(entries) ==
    [i \in 1..Cardinality(entries) |->
        CHOOSE x \in entries :
            Cardinality({y \in entries :
                compare_entries(y.path, y.is_dir, x.path, x.is_dir)}) = i - 1]

\* The entries fs::read_dir(dir) yields, the root being the empty relative path
read_dir(snapshot, dir) == {e \in snapshot : Parent(e.path) = dir}

\* The orders the operating system can enumerate a directory in
Listings(entries) ==
    {o \in [1..Cardinality(entries) -> entries] :
        \A i, j \in 1..Cardinality(entries) : o[i] = o[j] => i = j}

\* rel.components().count()
Depth(path) == IF path = <<>> THEN 0 ELSE Cardinality(Slashes(path)) + 1

relative_unix_path(path) == trim_start_matches(replace(path, Backslash, Slash), DotSlash)

MaxDepthWarning(lim) ==
    [text |-> "Reached maxDepth limit ({}). Skipped deeper traversal.", limit |-> lim.max_depth]

MaxFilesEntriesWarning(lim) ==
    [text |-> "Reached maxFiles limit ({}). Remaining entries were skipped.",
     limit |-> lim.max_files]

MaxFilesWarning(lim) ==
    [text |-> "Reached maxFiles limit ({}). Remaining files were skipped.",
     limit |-> lim.max_files]

\* scan_single_level: listing is the order read_dir yields the entries of dir in;
\* the loop stops after the push that reaches max_files, then the entries are sorted
scan_single_level(listing, lim, gitignore) ==
    LET taken == IF listing = <<>> THEN 0
                 ELSE MinOf(Len(listing), MaxOf(lim.max_files, 1))
        entries == SortEntries({listing[i] : i \in 1..taken})
        node(e) == [path |-> replace(e.path, Backslash, Slash),
                    name |-> Basename(e.path),
                    is_dir |-> e.is_dir,
                    children_count |-> IF e.is_dir THEN <<>> ELSE <<0>>,
                    ignored_by_gitignore |->
                        /\ gitignore.some
                        /\ matched_path_or_any_parents(gitignore, e.path, e.is_dir) = "Ignore"]
    IN  [nodes |-> [i \in 1..taken |-> node(entries[i])],
         warnings |-> IF taken > 0 /\ taken >= lim.max_files
                      THEN <<MaxFilesEntriesWarning(lim)>> ELSE <<>>]

\* apply_rule_decisions: every node gets its included_by_rules flag
apply_rule_decisions(e, b) ==
    [nodes |-> [i \in 1..Len(b.nodes) |->
                   [path |-> b.nodes[i].path,
                    name |-> b.nodes[i].name,
                    is_dir |-> b.nodes[i].is_dir,
                    children_count |-> b.nodes[i].children_count,
                    ignored_by_gitignore |-> b.nodes[i].ignored_by_gitignore,
                    included_by_rules |->
                        should_include(e, b.nodes[i].path, b.nodes[i].path,
                                       b.nodes[i].is_dir) = "Include"]],
     warnings |-> b.warnings]

\* scanner.rs build_gitignore_matcher: None when gitignore is off
scanner_gitignore(snapshot, enabled, order) ==
    IF enabled THEN build_gitignore_matcher(snapshot, order) ELSE NoGitignore

\* scan_root: engine_order and scan_order are the orders the two discovery walks met
\* the .gitignore files in, listing the order read_dir yields the root in. The
\* warnings of the level scan are dropped.
scan_root(snapshot, cfg, lim, engine_order, scan_order, listing) ==
    LET e == from_config(snapshot, cfg, engine_order)
        gitignore == scanner_gitignore(snapshot, cfg.use_gitignore, scan_order)
        children == apply_rule_decisions(e, scan_single_level(listing, lim, gitignore))
    IN  [path |-> <<46>>,
         is_dir |-> TRUE,
         children_count |-> <<Len(children.nodes)>>,
         included_by_rules |-> TRUE,
         ignored_by_gitignore |-> FALSE,
         children |-> children.nodes]

\* The canonical root, /w/root, and the one directory beside it, /w/rootx, as
\* lists of components
RootComponents == <<Str("w"), Str("root")>>

OutsideDirs == {<<Str("w"), Str("rootx")>>}

E_PATH_OUTSIDE_ROOT == "E_PATH_OUTSIDE_ROOT"

E_DIRPATH_NOT_DIR == "E_DIRPATH_NOT_DIR"

E_IO_READ == "E_IO_READ"

\* The parts of a path between its separators
RECURSIVE SplitSlash(_)
SplitSlash(s) ==
    IF Slashes(s) = {} THEN <<s>>
    ELSE <<SubSeq(s, 1, Min(Slashes(s)) - 1)>>
         \o SplitSlash(SubSeq(s, Min(Slashes(s)) + 1, Len(s)))

RECURSIVE JoinSlash(_)
JoinSlash(parts) ==
    IF parts = <<>> THEN <<>>
    ELSE IF Len(parts) = 1 THEN parts[1]
    ELSE parts[1] \o <<Slash>> \o JoinSlash(Tail(parts))

IsPrefix(short, long) == Len(short) <= Len(long) /\ SubSeq(long, 1, Len(short)) = short

\* What the filesystem holds at an absolute path: the ancestors of the root and the
\* root, the snapshot below it, the directory beside it
KindAt(snapshot, abs) ==
    IF IsPrefix(abs, RootComponents) \/ abs \in OutsideDirs THEN "dir"
    ELSE IF ~IsPrefix(RootComponents, abs) THEN "none"
    ELSE LET rel == JoinSlash(SubSeq(abs, Len(RootComponents) + 1, Len(abs)))
         IN  IF Dir(rel) \in snapshot THEN "dir"
             ELSE IF File(rel) \in snapshot THEN "file"
             ELSE "none"

\* fs::canonicalize, one name further from the path reached: every name on the way
\* must exist, and be a directory unless it is last. Ok(path) as <<path>>, Err as <<>>
ResolveName(snapshot, reached, name, is_last) ==
    IF name \in {<<>>, <<46>>} THEN <<reached>>
    ELSE IF name = <<46, 46>> THEN <<SubSeq(reached, 1, Len(reached) - 1)>>
    ELSE IF KindAt(snapshot, Append(reached, name)) \in
                (IF is_last THEN {"dir", "file"} ELSE {"dir"})
         THEN <<Append(reached, name)>>
    ELSE <<>>

RECURSIVE canonicalize(_, _, _)
canonicalize(snapshot, reached, parts) ==
    IF parts = <<>> \/ reached = <<>> THEN reached
    ELSE canonicalize(snapshot,
                      ResolveName(snapshot, reached[1], Head(parts), Len(parts) = 1),
                      Tail(parts))

\* Path::starts_with on the text of the two paths instead of their components
starts_with_text(path, base) == StartsWith(JoinSlash(path), JoinSlash(base))

\* Path::starts_with: base is a prefix of path, component by component
starts_with(path, base) == IsPrefix(base, path)

\* ensure_under_root for a candidate given by its components from /
ensure_under_root(snapshot, candidate) ==
    LET canonical == canonicalize(snapshot, << <<>> >>, candidate)
    IN  IF canonical = <<>> THEN [ok |-> FALSE, code |-> E_IO_READ]
        ELSE IF starts_with(canonical[1], RootComponents)
             THEN [ok |-> TRUE, path |-> canonical[1]]
        ELSE [ok |-> FALSE, code |-> E_PATH_OUTSIDE_ROOT]

\* resolve_dir_under_root: Ok with the directory as a path relative to the root, or
\* Err with its code
resolve_dir_under_root(snapshot, dir_path) ==
    LET trimmed == trim(dir_path)
        joined == IF StartsWith(trimmed, <<Slash>>) THEN SplitSlash(trimmed)
                  ELSE RootComponents \o SplitSlash(trimmed)
        checked == ensure_under_root(snapshot, joined)
    IN  IF trimmed = <<>> \/ trimmed = <<46>> THEN [ok |-> TRUE, dir |-> <<>>]
        ELSE IF ~checked.ok THEN checked
        ELSE IF KindAt(snapshot, checked.path) # "dir"
             THEN [ok |-> FALSE, code |-> E_DIRPATH_NOT_DIR]
        ELSE [ok |-> TRUE,
              dir |-> JoinSlash(SubSeq(checked.path, Len(RootComponents) + 1,
                                       Len(checked.path)))]

\* scan_children on a directory that resolved: listing is the order of read_dir(dir)
scan_children(snapshot, cfg, lim, dir_abs, engine_order, scan_order, listing) ==
    LET e == from_config(snapshot, cfg, engine_order)
        gitignore == scanner_gitignore(snapshot, cfg.use_gitignore, scan_order)
    IN  IF Depth(dir_abs) >= lim.max_depth
        THEN [nodes |-> <<>>, warnings |-> <<MaxDepthWarning(lim)>>]
        ELSE apply_rule_decisions(e, scan_single_level(listing, lim, gitignore))


\* WalkDir::new(root).max_depth(max_depth).sort_by(compare_entries): the entries
\* below dir in the order the iterator yields them, every directory before its
\* content, nothing deeper than max_depth
RECURSIVE WalkBelow(_, _, _)
RECURSIVE WalkEach(_, _, _)
WalkBelow(snapshot, dir, max_depth) ==
    IF Depth(dir) >= max_depth THEN <<>>
    ELSE WalkEach(snapshot, SortEntries(read_dir(snapshot, dir)), max_depth)

WalkEach(snapshot, entries, max_depth) ==
    IF entries = <<>> THEN <<>>
    ELSE <<Head(entries)>>
         \o (IF Head(entries).is_dir
             THEN WalkBelow(snapshot, Head(entries).path, max_depth) ELSE <<>>)
         \o WalkEach(snapshot, Tail(entries), max_depth)

dir_has_descendants(snapshot, path) == read_dir(snapshot, path) # {}

\* Every line followed by '\n'
RECURSIVE JoinLines(_)
JoinLines(text) == IF text = <<>> THEN <<>> ELSE Head(text) \o <<LF>> \o JoinLines(Tail(text))

\* The content File::open(abs_path) reads: a .gitignore holds its lines, every
\* other file the same short text with a CRLF line end
ContentOf(path) ==
    IF Basename(path) = DotGitignore THEN JoinLines(GitignoreText(path))
    ELSE <<97, CR, LF>>

\* selection.rs:68-81 with every file pushed whatever the decision
visit_file_any_decision(s, entry, verdict) ==
    [s EXCEPT !.files = Append(@, [rel_path |-> relative_unix_path(entry.path),
                                   size |-> Len(ContentOf(entry.path))]),
              !.included = @ + 1]

\* selection.rs:68-81: the match on the decision for a file
visit_file(s, entry, verdict) ==
    IF verdict = "Include"
    THEN [s EXCEPT !.files = Append(@, [rel_path |-> relative_unix_path(entry.path),
                                        size |-> Len(ContentOf(entry.path))]),
                   !.included = @ + 1]
    ELSE [s EXCEPT !.excluded = @ + 1]

\* selection.rs:41-90: the loop over the walker's entries from the index-th on
RECURSIVE CollectFrom(_, _, _, _, _, _)
CollectFrom(snapshot, e, lim, entries, index, s) ==
    IF index > Len(entries) THEN s
    ELSE LET entry == entries[index]
             warn == /\ entry.is_dir
                     /\ Depth(entry.path) >= lim.max_depth
                     /\ ~s.depth_warning_emitted
                     /\ dir_has_descendants(snapshot, entry.path)
             s1 == IF warn
                   THEN [s EXCEPT !.warnings = Append(@, MaxDepthWarning(lim)),
                                  !.depth_warning_emitted = TRUE]
                   ELSE s
             verdict == should_include(e, relative_unix_path(entry.path), entry.path,
                                        entry.is_dir)
             s2 == visit_file(s1, entry, verdict)
         IN  IF entry.is_dir THEN CollectFrom(snapshot, e, lim, entries, index + 1, s1)
             ELSE IF s2.included + s2.excluded >= lim.max_files
                  THEN [s2 EXCEPT !.warnings = Append(@, MaxFilesWarning(lim))]
             ELSE CollectFrom(snapshot, e, lim, entries, index + 1, s2)

\* selection.rs:92-101: a.rel_path sorts before b.rel_path
RelPathLess(a, b) ==
    LET a_lower == to_lowercase(a)
        b_lower == to_lowercase(b)
    IN  IF a_lower = b_lower THEN StrLess(a, b) ELSE StrLess(a_lower, b_lower)

SortFiles(files) ==
    LET S == {files[i] : i \in 1..Len(files)}
    IN  [i \in 1..Cardinality(S) |->
            CHOOSE x \in S :
                Cardinality({y \in S : RelPathLess(y.rel_path, x.rel_path)}) = i - 1]

\* collect_selected_files: order is the order the engine's discovery walk met the
\* .gitignore files in. The SelectionRun, with the engine it was made under.
collect_selected_files(snapshot, cfg, lim, order) ==
    LET e == from_config(snapshot, cfg, order)
        s == CollectFrom(snapshot, e, lim, WalkBelow(snapshot, <<>>, lim.max_depth), 1,
                         [files |-> <<>>, included |-> 0, excluded |-> 0,
                          warnings |-> <<>>, depth_warning_emitted |-> FALSE])
    IN  [files |-> SortFiles(s.files),
         included_files |-> s.included,
         excluded_files |-> s.excluded,
         warnings |-> s.warnings,
         engine |-> e]

----------------------------------------------------------------------------
(* application/exporter.rs: the output file of run_export, as its bytes *)

\* write_line for every line in turn
write_lines(structure) == JoinLines(structure)

\* The directories a relative path names by its leading parts
AncestorsOf(rel_path) == {SubSeq(rel_path, 1, i - 1) : i \in Slashes(rel_path)}

\* build_structure_lines sorting by the raw path, directories first
build_structure_lines_raw_order(files) ==
    LET paths == {files[i].rel_path : i \in 1..Len(files)}
        entries == {Dir(<<46>>)}
                   \cup {Dir(d) : d \in UNION {AncestorsOf(p) : p \in paths}}
                   \cup {File(p) : p \in paths}
        sorted == [i \in 1..Cardinality(entries) |->
                      CHOOSE x \in entries :
                          Cardinality({y \in entries :
                              \/ y.is_dir /\ ~x.is_dir
                              \/ y.is_dir = x.is_dir /\ StrLess(y.path, x.path)}) = i - 1]
    IN  [i \in 1..Len(sorted) |-> sorted[i].path]

\* build_structure_lines: ".", then every prefix of every selected path once,
\* directories first, each group by lowercase path and then by path
build_structure_lines(files) ==
    LET paths == {files[i].rel_path : i \in 1..Len(files)}
        entries == {Dir(<<46>>)}
                   \cup {Dir(d) : d \in UNION {AncestorsOf(p) : p \in paths}}
                   \cup {File(p) : p \in paths}
        sorted == SortEntries(entries)
    IN  [i \in 1..Len(sorted) |-> sorted[i].path]

\* write_file_content_streaming when every read fills the buffer it is given: the
\* loop from the state s on, then the flush of the pending '\r' and of the tail
RECURSIVE StreamLoop(_, _)
StreamLoop(content, s) ==
    LET want == IF s.remaining = <<>> THEN STREAM_CHUNK_SIZE
                ELSE MinOf(s.remaining[1], STREAM_CHUNK_SIZE)
        read_len == MinOf(want, Len(content) - s.pos)
        norm == normalize_newline_bytes(SubSeq(content, s.pos + 1, s.pos + read_len),
                                        s.pending_cr)
        seg == write_utf8_lossy_segment(norm.output, s.utf8_tail)
        last == IF s.pending_cr THEN write_utf8_lossy_segment(<<LF>>, s.utf8_tail)
                ELSE [written |-> <<>>, utf8_tail |-> s.utf8_tail]
    IN  IF s.remaining = <<0>> \/ read_len = 0
        THEN s.written \o last.written \o write_utf8_lossy_raw(last.utf8_tail)
        ELSE StreamLoop(content,
                        [pos |-> s.pos + read_len,
                         remaining |-> IF s.remaining = <<>> THEN <<>>
                                       ELSE <<MaxOf(s.remaining[1] - read_len, 0)>>,
                         pending_cr |-> norm.pending_cr,
                         utf8_tail |-> seg.utf8_tail,
                         written |-> s.written \o seg.written])

write_file_content_streaming(content, max_bytes) ==
    StreamLoop(content, [pos |-> 0, remaining |-> max_bytes, pending_cr |-> FALSE,
                         utf8_tail |-> <<>>, written |-> <<>>])

\* exporter.rs:83-151: what one selected file adds to the output
export_file(selected, cfg) ==
    LET content == ContentOf(selected.rel_path)
        max_bytes == max_bytes_of(cfg)
    IN  IF is_binary(SubSeq(content, 1, MinOf(ProbeSize, Len(content)))) THEN <<>>
        ELSE IF cfg.large_file_strategy = "Skip" /\ selected.size > max_bytes THEN <<>>
        ELSE write_line(FileHeader \o selected.rel_path \o HeaderEnd)
             \o (IF cfg.large_file_strategy = "Truncate" /\ selected.size > max_bytes
                 THEN write_file_content_streaming(content, <<max_bytes>>) \o <<LF>>
                      \o write_line(TruncatedAt \o ToDecimal(max_bytes) \o TruncatedBytes)
                 ELSE write_file_content_streaming(content, <<>>) \o <<LF>>)
             \o write_line(FileFooter \o selected.rel_path \o HeaderEnd)
             \o write_line(<<>>)

\* exporter.rs:82-152: the loop over the selected files
RECURSIVE export_files(_, _)
export_files(files, cfg) ==
    IF files = <<>> THEN <<>>
    ELSE export_file(Head(files), cfg) \o export_files(Tail(files), cfg)

\* run_export: the bytes of the output file for the selection it collected
run_export(selection, cfg) ==
    write_line(StructureHeader)
    \o write_lines(build_structure_lines(selection.files))
    \o write_line(<<>>)
    \o export_files(selection.files, cfg)

----------------------------------------------------------------------------
(* SpecWalk: one session of the front end over one snapshot. It browses (the tree
   is scanned, then a directory is expanded) or it exports (the selection is
   evaluated, then the export runs twice, to two fresh output paths outside the
   root). The operations share no state: every call builds its own engine, and the
   operating system chooses the order of every unsorted directory enumeration. *)

MaxDepth == 3

MaxFiles == 2

WalkConfigs ==
    [ use_gitignore : BOOLEAN,
      include_globs : {<<>>},
      exclude_globs : {<<>>},
      include_extensions : {<<>>},
      exclude_extensions : {<<>>},
      max_file_size_kb : {256},
      large_file_strategy : {"Truncate"},
      manual_selections :
          {<<>>, (Str("kept.ts") :> "Exclude") @@ (Str(".git/config") :> "Include")} ]

WalkLimits ==
    [ max_files : (0..MaxFiles) \cup {DefaultLimits.max_files},
      max_depth : 0..MaxDepth ]

DirPaths ==
    {<<>>, <<46>>, Str("bDir"), Str("kept.ts"), Str(".."), Str("/w/rootx"),
     Str("bDir/../missing")}

InitWalk ==
    /\ fs \in Snapshots
    /\ config \in WalkConfigs
    /\ limits \in WalkLimits
    /\ IdleRules
    /\ IdleStream
    /\ IdleWalk
    /\ IdleOutput

ScanRoot ==
    /\ tree = <<>>
    /\ run = <<>>
    /\ \E engine_order \in DiscoveryOrders(fs), scan_order \in DiscoveryOrders(fs),
          listing \in Listings(read_dir(fs, <<>>)) :
          tree' = <<scan_root(fs, config, limits, engine_order, scan_order, listing)>>
    /\ UNCHANGED <<outputVars, requestVars, rulesVars, streamVars, batch, run, first_output,
                   second_output>>

ScanChildren ==
    /\ tree # <<>>
    /\ batch = <<>>
    /\ \E dir_path \in DirPaths :
          LET dir_abs == resolve_dir_under_root(fs, dir_path)
          IN  IF ~dir_abs.ok
              THEN batch' = <<[dir_path |-> dir_path, ok |-> FALSE, code |-> dir_abs.code,
                               nodes |-> <<>>, warnings |-> <<>>]>>
              ELSE \E engine_order \in DiscoveryOrders(fs),
                      scan_order \in DiscoveryOrders(fs),
                      listing \in Listings(read_dir(fs, dir_abs.dir)) :
                      LET b == scan_children(fs, config, limits, dir_abs.dir,
                                             engine_order, scan_order, listing)
                      IN  batch' = <<[dir_path |-> dir_path, ok |-> TRUE, code |-> "",
                                      nodes |-> b.nodes, warnings |-> b.warnings]>>
    /\ UNCHANGED <<outputVars, requestVars, rulesVars, streamVars, tree, run, first_output,
                   second_output>>

CollectSelectedFiles ==
    /\ tree = <<>>
    /\ run = <<>>
    /\ \E order \in DiscoveryOrders(fs) :
          run' = <<collect_selected_files(fs, config, limits, order)>>
    /\ UNCHANGED <<outputVars, requestVars, rulesVars, streamVars, tree, batch, first_output,
                   second_output>>

RunExport ==
    /\ run # <<>>
    /\ second_output = <<>>
    /\ \E order \in DiscoveryOrders(fs) :
          LET output == run_export(collect_selected_files(fs, config, limits, order), config)
          IN  IF first_output = <<>>
              THEN first_output' = <<output>> /\ UNCHANGED second_output
              ELSE second_output' = <<output>> /\ UNCHANGED first_output
    /\ UNCHANGED <<outputVars, requestVars, rulesVars, streamVars, tree, batch, run>>

NextWalk == ScanRoot \/ ScanChildren \/ CollectSelectedFiles \/ RunExport

SpecWalk == InitWalk /\ [][NextWalk]_vars

----------------------------------------------------------------------------
(* SpecStructure: run_export over roots whose directories have names that sort
   around ".": the selection is evaluated, then the export runs *)

StructureFiles ==
    {Str("-d/a.txt"), Str("!x/b.txt"), Str("ADir/a.txt"), Str("b.txt"), Str("z/y/w.txt")}

\* The root that holds the files of paths, with the directories they lie in
RootOf(paths) ==
    {File(p) : p \in paths} \cup {Dir(d) : d \in UNION {AncestorsOf(p) : p \in paths}}

StructureSnapshots == {RootOf(paths) : paths \in SUBSET StructureFiles}

InitStructure ==
    /\ fs \in StructureSnapshots
    /\ config \in {c \in WalkConfigs : ~c.use_gitignore /\ c.manual_selections = <<>>}
    /\ limits = DefaultLimits
    /\ IdleRules
    /\ IdleStream
    /\ IdleWalk
    /\ IdleOutput

NextStructure == CollectSelectedFiles \/ RunExport

SpecStructure == InitStructure /\ [][NextStructure]_vars

----------------------------------------------------------------------------
(* SpecSelection: run_export over a selection of several files. The output file is
   created and the structure block written; then the loop of run_export goes
   through the files one after the other *)

MaxLater == 1

\* An empty file, a binary file, a text file with an invalid byte, a text file
\* with a CRLF line end
SelectionContents == {<<>>, <<0>>, <<97, 255>>, <<CR, LF, 97>>}

\* The paths of the selected files, in the order of the selection
SelectionPaths == <<Str("a.txt"), Str("d/b.txt"), Str("d/c.txt"), Str("e.txt")>>

Selections ==
    UNION {{[i \in 1..n |-> [content |-> contents[i], size |-> Len(contents[i]),
                             rel_path |-> SelectionPaths[i]]] :
                contents \in [1..n -> SelectionContents]} : n \in 1..(MaxLater + 1)}

\* What the write_line calls of exporter.rs:75-79 add to total_written
RECURSIVE counted_lines(_)
counted_lines(structure) ==
    IF structure = <<>> THEN 0
    ELSE counted_line(Head(structure)) + counted_lines(Tail(structure))

InitSelection ==
    /\ fs = {}
    /\ config \in StreamConfigs
    /\ limits = DefaultLimits
    /\ IdleRules
    /\ IdleWalk
    /\ IdleOutput
    /\ selection_files \in Selections
    /\ file = Head(selection_files)
    /\ later = Tail(selection_files)
    /\ pc = "open"
    /\ pos = 0
    /\ remaining = <<>>
    /\ pending_cr = FALSE
    /\ utf8_tail = <<>>
    /\ body = <<>>
    /\ probe_read = 0
    /\ stream_read = 0
    /\ normalized_out = <<>>
    /\ block = write_line(StructureHeader)
               \o write_lines(build_structure_lines(selection_files))
               \o write_line(<<>>)
    /\ total_written = counted_line(StructureHeader)
                       + counted_lines(build_structure_lines(selection_files))
                       + counted_line(<<>>)
    /\ notes = <<>>
    /\ exported_files = 0
    /\ skipped_files = 0
    /\ input_failure = "none"
    /\ returned = <<>>

\* exporter.rs:82: the for loop takes the next selected file; the state of
\* write_file_content_streaming is local to each call
NextFile ==
    /\ pc \in {"done", "skipped"}
    /\ later # <<>>
    /\ file' = Head(later)
    /\ later' = Tail(later)
    /\ pc' = "open"
    /\ pos' = 0
    /\ remaining' = <<>>
    /\ pending_cr' = FALSE
    /\ utf8_tail' = <<>>
    /\ body' = <<>>
    /\ probe_read' = 0
    /\ stream_read' = 0
    /\ normalized_out' = <<>>
    /\ input_failure' = "none"
    /\ UNCHANGED <<outputVars, requestVars, rulesVars, walkVars, block, notes, exported_files,
                   skipped_files, returned, total_written, selection_files>>

NextSelection ==
    \/ OpenFails
    \/ ProbeFails
    \/ SkipBinary
    \/ RewindFails
    \/ SkipLarge
    \/ BeginFile
    \/ ReadChunk
    \/ FinishFile
    \/ NextFile

SpecSelection == InitSelection /\ [][NextSelection]_vars

----------------------------------------------------------------------------
(* Properties of the rule engine, checked under SpecRules *)

Asked == query # <<>>

UnderDotGit(rel_path) ==
    LET n == normalize_key(rel_path) IN n = DotGit \/ StartsWith(n, DotGitSlash)

MatchesAnIncludeGlob(cfg, rel_path) ==
    \E i \in 1..Len(cfg.include_globs) : GlobMatch(cfg.include_globs[i], rel_path, FALSE)

MatchesAnExcludeGlob(cfg, rel_path) ==
    \E i \in 1..Len(cfg.exclude_globs) : GlobMatch(cfg.exclude_globs[i], rel_path, FALSE)

MatchesAnIncludeExtension(cfg, rel_path) ==
    \E ext \in normalize_extensions(cfg.include_extensions) : EndsWith(to_lowercase(rel_path), ext)

MatchesAnExcludeExtension(cfg, rel_path) ==
    \E ext \in normalize_extensions(cfg.exclude_extensions) : EndsWith(to_lowercase(rel_path), ext)

\* A manual key with state Include or Exclude that is the path or an ancestor of it
ManualDecisionKeyApplies(cfg, rel_path) ==
    \E k \in DOMAIN cfg.manual_selections :
        /\ cfg.manual_selections[k] \in {"Include", "Exclude"}
        /\ \/ normalize_key(k) = normalize_key(rel_path)
           \/ StartsWith(normalize_key(rel_path), normalize_key(k) \o <<Slash>>)

\* C1: whatever the configuration (manual Include on the path or an ancestor, globs,
\* extensions, gitignore) and for both is_dir values, should_include returns Exclude
\* for every path whose normalised form is ".git" or begins with ".git/".
C1_HardExcludeWins ==
    (Asked /\ UnderDotGit(query[1].rel_path)) => decision = "Exclude"

\* A file under .git carrying an explicit manual Include was asked about, and excluded
C1_Witness ==
    /\ Asked
    /\ query[1].rel_path = Str(".git/config")
    /\ ~query[1].is_dir
    /\ Str(".git/config") \in DOMAIN config.manual_selections
    /\ config.manual_selections[Str(".git/config")] = "Include"
    /\ decision = "Exclude"

\* C2 as stated: with no manual Include/Exclude key applying, a file that matches an
\* include glob or an include extension is included.
C2_AnyIncludeRuleWins ==
    ( /\ Asked
      /\ ~query[1].is_dir
      /\ ~ManualDecisionKeyApplies(config, query[1].rel_path)
      /\ \/ MatchesAnIncludeGlob(config, query[1].rel_path)
         \/ MatchesAnIncludeExtension(config, query[1].rel_path) )
    => decision = "Include"

\* C2 as amended: when the manual lookup yields neither Include nor Exclude, the file
\* is not under .git, and the file matches every include set that is configured (the
\* include globs if any are given, the include extensions if any are given, at least
\* one being given), should_include returns Include, whatever the exclude extensions,
\* the exclude globs and gitignore say.
C2_IncludeRulesWin ==
    ( /\ Asked
      /\ ~query[1].is_dir
      /\ ~UnderDotGit(query[1].rel_path)
      /\ manual_state_for(engine[1], query[1].rel_path) \notin {"Include", "Exclude"}
      /\ (config.include_globs = <<>> \/ MatchesAnIncludeGlob(config, query[1].rel_path))
      /\ \/ normalize_extensions(config.include_extensions) = {}
         \/ MatchesAnIncludeExtension(config, query[1].rel_path)
      /\ \/ MatchesAnIncludeGlob(config, query[1].rel_path)
         \/ MatchesAnIncludeExtension(config, query[1].rel_path) )
    => decision = "Include"

\* A file matching an include glob, an exclude extension and an exclude glob, and
\* ignored by gitignore, with no manual key on it, was included
C2_Witness ==
    /\ Asked
    /\ query[1].rel_path = Str("kept.ts")
    /\ ~query[1].is_dir
    /\ ~ManualDecisionKeyApplies(config, query[1].rel_path)
    /\ MatchesAnIncludeGlob(config, query[1].rel_path)
    /\ MatchesAnExcludeExtension(config, query[1].rel_path)
    /\ MatchesAnExcludeGlob(config, query[1].rel_path)
    /\ engine[1].use_gitignore /\ engine[1].gitignore.some
    /\ matched_path_or_any_parents(engine[1].gitignore, query[1].rel_path, FALSE) = "Ignore"
    /\ decision = "Include"

\* C3: a manual Exclude whose key is the path excludes it even when include rules
\* match; a manual Include whose key is the path includes it even when exclude rules
\* or gitignore match, unless the path is under .git.
C3_ManualOverrideWins ==
    (Asked /\ query[1].rel_path \in DOMAIN config.manual_selections) =>
        LET state == config.manual_selections[query[1].rel_path]
        IN  /\ state = "Exclude" => decision = "Exclude"
            /\ (state = "Include" /\ ~UnderDotGit(query[1].rel_path)) => decision = "Include"

\* A file with a manual Exclude on it that matches an include glob was excluded
C3_Witness ==
    /\ Asked
    /\ query[1].rel_path = Str("kept.ts")
    /\ ~query[1].is_dir
    /\ Str("kept.ts") \in DOMAIN config.manual_selections
    /\ config.manual_selections[Str("kept.ts")] = "Exclude"
    /\ MatchesAnIncludeGlob(config, query[1].rel_path)
    /\ decision = "Exclude"

\* The normalised manual key is the path or names an ancestor of it
KeyApplies(manual_key, key) == key = manual_key \/ StartsWith(key, manual_key \o <<Slash>>)

\* C20 as stated: manual_state_for returns the state of the longest normalised
\* manual key that equals the path or is a prefix of it followed by '/', and
\* nothing when there is no such key, whatever characters the keys hold.
C20_LongestKeyOnBoundary ==
    Asked =>
        LET key == normalize_key(query[1].rel_path)
            applying == {mk \in DOMAIN engine[1].manual : KeyApplies(mk, key)}
        IN  manual_state_for(engine[1], query[1].rel_path) =
                IF applying = {} THEN "None"
                ELSE engine[1].manual[CHOOSE mk \in applying :
                                         \A o \in applying : Len(o) <= Len(mk)]

\* The longest normalised manual key that is the path asked about or an ancestor
\* of it, None as <<>>
LongestApplyingKey ==
    LET key == normalize_key(query[1].rel_path)
        applying == {mk \in DOMAIN engine[1].manual : KeyApplies(mk, key)}
    IN  IF applying = {} THEN <<>>
        ELSE <<CHOOSE mk \in applying : \A o \in applying : Len(o) <= Len(mk)>>

\* C21 as stated: when the longest manual key applying to the path has state
\* Inherit, should_include returns what it returns with no manual selections, even
\* if another key carries Include or Exclude.
C21_InheritFallsThrough ==
    (Asked /\ LongestApplyingKey # <<>>
        /\ engine[1].manual[LongestApplyingKey[1]] = "Inherit") =>
        decision = should_include([engine[1] EXCEPT !.manual = <<>>], query[1].rel_path,
                                  query[1].rel_path, query[1].is_dir)

\* What the exclude tiers say about the path asked: an exclude extension on a file,
\* an exclude glob, gitignore on the path or a parent
ExcludeTierApplies ==
    \/ ~query[1].is_dir /\ MatchesAnExcludeExtension(config, query[1].rel_path)
    \/ MatchesAnExcludeGlob(config, query[1].rel_path)
    \/ /\ config.use_gitignore
       /\ engine[1].gitignore.some
       /\ matched_path_or_any_parents(engine[1].gitignore, query[1].rel_path,
                                      query[1].is_dir) = "Ignore"

\* C29 as stated: for a path not under .git, with no manual Include/Exclude key on
\* it or on an ancestor, and with no include glob and no include extension
\* configured, should_include returns Exclude exactly when an exclude extension
\* matches the lowercased path of a file, or an exclude glob matches the path, or
\* gitignore is on and ignores the path or a parent; otherwise Include.
C29_ExcludeTiersDecide ==
    ( /\ Asked
      /\ ~UnderDotGit(query[1].rel_path)
      /\ ~ManualDecisionKeyApplies(config, query[1].rel_path)
      /\ config.include_globs = <<>>
      /\ normalize_extensions(config.include_extensions) = {} )
    => decision = IF ExcludeTierApplies THEN "Exclude" ELSE "Include"

----------------------------------------------------------------------------
(* Properties of the streaming of one file, checked under SpecStream *)

Streaming == pc \in {"stream", "done"}

Truncating == config.large_file_strategy = "Truncate" /\ file.size > max_bytes_of(config)

\* The raw bytes the streaming loop has read so far
RawRead == SubSeq(file.content, 1, stream_read)

\* C5: whatever the content (CRLF, lone CR, LF; a CR ending a chunk, ending the
\* budget or ending the file), the bytes written between the header and the footer
\* of a file hold no carriage return.
C5_NoCarriageReturn ==
    Streaming => \A i \in 1..Len(body) : body[i] # CR

\* The budget ran out right after a '\r': the file is done, its last byte read was
\* a CR that stayed pending, and the body ends with the '\n' written for it
C5_Witness ==
    /\ pc = "done"
    /\ remaining = <<0>>
    /\ stream_read > 0 /\ stream_read < Len(file.content)
    /\ file.content[stream_read] = CR
    /\ pending_cr
    /\ body # <<>> /\ body[Len(body)] = LF

\* C6 as stated, for a file whose recorded size is its length: under Truncate the
\* raw bytes run_export reads from the file (the probe and the streaming both start
\* at offset 0) are at most maxFileSizeKB x 1024, also for maxFileSizeKB = 0.
C6_AllReadsWithinCap ==
    (config.large_file_strategy = "Truncate" /\ file.size = Len(file.content)) =>
        MaxOf(probe_read, stream_read) <= max_bytes_of(config)

\* C6 as amended: under Truncate, for a file recorded as larger than
\* maxFileSizeKB x 1024 (0 included), the streaming loop reads at most that many raw
\* bytes, before newline normalisation, and stops when the budget is spent; the
\* binary probe before it reads up to one probe buffer whatever the cap.
C6_StreamReadsWithinCap ==
    /\ probe_read <= ProbeSize
    /\ (Streaming /\ Truncating) =>
          /\ remaining # <<>>
          /\ stream_read + remaining[1] = max_bytes_of(config)
          /\ stream_read <= max_bytes_of(config)

\* A file longer than a positive cap was streamed up to the cap and no further
C6_Witness ==
    /\ pc = "done"
    /\ Truncating
    /\ max_bytes_of(config) > 0
    /\ Len(file.content) > max_bytes_of(config)
    /\ stream_read = max_bytes_of(config)

\* C7 as stated, for a file whose recorded size is its length: under Truncate the
\* body written for a file is at most maxFileSizeKB x 1024 bytes.
C7_BodyWithinCap ==
    (pc = "done" /\ config.large_file_strategy = "Truncate" /\ file.size = Len(file.content))
        => Len(body) <= max_bytes_of(config)

\* C7 as amended: the body is at most three times the raw bytes read (a byte that
\* is not valid UTF-8 is written as the three-byte U+FFFD), so under Truncate at most
\* 3 x maxFileSizeKB x 1024 for a file recorded as larger than the cap; it is at most
\* the raw bytes read, so at most maxFileSizeKB x 1024, when those are valid UTF-8.
C7_BodyWithinThreeTimesCap ==
    Streaming =>
        /\ Len(body) <= 3 * stream_read
        /\ Truncating => Len(body) <= 3 * max_bytes_of(config)
        /\ from_utf8(RawRead).ok =>
              /\ Len(body) <= stream_read
              /\ Truncating => Len(body) <= max_bytes_of(config)

\* A truncated file of invalid bytes: the body is three times the cap
C7_Witness ==
    /\ pc = "done"
    /\ Truncating
    /\ max_bytes_of(config) > 0
    /\ stream_read = max_bytes_of(config)
    /\ Len(body) = 3 * max_bytes_of(config)

\* The normalisation of a whole input at once: each "\r\n" pair and each other
\* '\r' becomes one '\n', every other byte stays
RECURSIVE NormalizedAtOnce(_)
NormalizedAtOnce(input) ==
    IF input = <<>> THEN <<>>
    ELSE IF Head(input) = CR
         THEN <<LF>> \o NormalizedAtOnce(IF Len(input) >= 2 /\ input[2] = LF
                                         THEN SubSeq(input, 3, Len(input))
                                         ELSE Tail(input))
    ELSE <<Head(input)>> \o NormalizedAtOnce(Tail(input))

\* C22: however the bytes read are cut into chunks, the normalised bytes put out
\* (with the '\n' still owed for a '\r' that ended the last chunk) are the
\* normalisation of the bytes read taken at once; a "\r\n" pair cut between two
\* chunks gives one '\n'.
C22_ChunkedAsAtOnce ==
    Streaming =>
        normalized_out \o (IF pc = "stream" /\ pending_cr THEN <<LF>> ELSE <<>>)
            = NormalizedAtOnce(RawRead)

\* A chunk ended between the '\r' and the '\n' of a pair: the '\r' is carried,
\* nothing is put out for it yet, and the next chunk starts with the '\n'
C22_Witness ==
    /\ pc = "stream"
    /\ stream_read = 1
    /\ Len(file.content) >= 2 /\ file.content[1] = CR /\ file.content[2] = LF
    /\ remaining # <<0>>
    /\ pending_cr
    /\ normalized_out = <<>>

\* C23 as stated: whatever the content and the cut of the reads, the body written
\* for a file is the lossy UTF-8 decoding of all its normalised bytes: a character
\* of several bytes cut by a chunk boundary is written whole, also when an invalid
\* byte comes earlier in the chunk.
C23_BodyIsLossyOfWhole ==
    pc = "done" => body = from_utf8_lossy(normalized_out)

\* C24: at every point of the streaming of a file, whatever its content, the cap
\* and the cut of the reads, the UTF-8 tail carried to the next write holds fewer
\* than 4 bytes.
C24_TailBelowFour ==
    Len(utf8_tail) < 4

\* A chunk ended one byte short of a character of four bytes, after other
\* bytes had been read: the three bytes are carried
C24_Witness ==
    /\ pc = "stream"
    /\ stream_read = 4
    /\ utf8_tail = <<240, 159, 159>>

\* The lines run_export writes around the body of the selected file
HeaderLine == write_line(FileHeader \o SelectedPath \o HeaderEnd)

FooterLine == write_line(FileFooter \o SelectedPath \o HeaderEnd)

MarkerLine == write_line(TruncatedAt \o ToDecimal(max_bytes_of(config)) \o TruncatedBytes)

Exported == pc = "done"

RecordedLarge == file.size > max_bytes_of(config)

\* C14: under Truncate a file that is not binary is truncated exactly when its
\* recorded size is above maxFileSizeKB x 1024. Truncated, its block is header, body,
\* newline, '[TRUNCATED at <maxBytes> bytes]', footer, blank line, with one
\* Truncated note naming it; otherwise the block has no marker, there is no note
\* and the whole file was read. Either way exported_files counts it.
C14_TruncatedIffAboveCap ==
    (Exported /\ config.large_file_strategy = "Truncate") =>
        /\ exported_files = 1 /\ skipped_files = 0
        /\ IF RecordedLarge
           THEN /\ block = HeaderLine \o body \o <<LF>> \o MarkerLine \o FooterLine \o <<LF>>
                /\ notes = <<NoteBytes(TruncatedNote, max_bytes_of(config))>>
                /\ stream_read <= max_bytes_of(config)
           ELSE /\ block = HeaderLine \o body \o <<LF>> \o FooterLine \o <<LF>>
                /\ notes = <<>>
                /\ stream_read = Len(file.content)

\* A file one byte over the cap was cut, with the marker after a body that is
\* not empty
C14_Witness ==
    /\ Exported /\ config.large_file_strategy = "Truncate"
    /\ file.size = max_bytes_of(config) + 1
    /\ stream_read = max_bytes_of(config)
    /\ body # <<>>
    /\ block = HeaderLine \o body \o <<LF>> \o MarkerLine \o FooterLine \o <<LF>>

\* run_export is through with the file: it skipped it or exported it
Handled == pc \in {"skipped", "done"}

\* C15: under Skip a file that opened and is not binary is skipped for size exactly
\* when its recorded size is above maxFileSizeKB x 1024. Skipped, it counts in
\* skipped_files and not in exported_files, has the note 'exceeds maxFileSizeKB'
\* and nothing of it is in the output; otherwise its whole block is written.
C15_SkippedIffAboveCap ==
    (Handled /\ config.large_file_strategy = "Skip" /\ input_failure = "none"
        /\ ~is_binary(Probe)) =>
        IF RecordedLarge
        THEN /\ pc = "skipped"
             /\ skipped_files = 1 /\ exported_files = 0
             /\ notes = <<Note(SkippedLarge)>>
             /\ block = <<>>
        ELSE /\ pc = "done"
             /\ skipped_files = 0 /\ exported_files = 1
             /\ notes = <<>>
             /\ block = HeaderLine \o body \o <<LF>> \o FooterLine \o <<LF>>

\* A text file one byte over the cap was skipped
C15_Witness ==
    /\ pc = "skipped" /\ config.large_file_strategy = "Skip" /\ input_failure = "none"
    /\ ~is_binary(Probe)
    /\ file.size = max_bytes_of(config) + 1
    /\ max_bytes_of(config) > 0
    /\ notes = <<Note(SkippedLarge)>>

\* C19 as stated: a failure to open the file or to read the probe is recovered: the
\* file counts in skipped_files with a note, the loop goes on to the next file and
\* run_export does not return an error.
C19_InputFailuresRecovered ==
    input_failure \in {"open", "probe"} =>
        /\ pc = "skipped"
        /\ skipped_files = 1
        /\ Len(notes) = 1
        /\ returned = <<>>

----------------------------------------------------------------------------
(* Properties of an export of several files, checked under SpecSelection *)

\* The loop is through the selection: run_export flushes and returns Ok
ReturnedOk == pc \in {"done", "skipped"} /\ later = <<>>

\* C27: when run_export returns Ok, total_bytes_written is the number of bytes in
\* the output file: the structure lines, the headers, the bodies with U+FFFD in
\* the place of invalid bytes, the newlines, the markers and the footers.
C27_CounterIsFileLength ==
    ReturnedOk => total_written = Len(block)

\* Two files were exported, the second one with an invalid byte that was written
\* as U+FFFD
C27_Witness ==
    /\ ReturnedOk
    /\ exported_files = 2
    /\ file.content = <<97, 255>>
    /\ body = <<97>> \o REPLACEMENT
    /\ total_written = Len(block)

\* The places in the output where text starts
PlacesOf(text) ==
    {i \in 1..Len(block) : i + Len(text) - 1 <= Len(block)
                             /\ SubSeq(block, i, i + Len(text) - 1) = text}

SkippedTexts == {SkippedOpen, SkippedBinary, SkippedLarge}

\* The notes that say the file of rel_path was skipped
SkippedNotesOf(rel_path) ==
    {i \in 1..Len(notes) : notes[i].text \in SkippedTexts /\ notes[i].rel_path = rel_path}

HeaderOf(rel_path) == write_line(FileHeader \o rel_path \o HeaderEnd)

FooterOf(rel_path) == write_line(FileFooter \o rel_path \o HeaderEnd)

\* C30: when run_export returns Ok, exported_files + skipped_files is the number of
\* selected files; every selected file was either exported (its header and its
\* footer are in the output once, no "Skipped" note names it) or skipped (nothing
\* of it is in the output, one "Skipped" note names it); the output holds
\* exported_files headers and the notes skipped_files "Skipped" entries.
C30_EveryFileCountedOnce ==
    ReturnedOk =>
        /\ exported_files + skipped_files = Len(selection_files)
        /\ Cardinality(PlacesOf(FileHeader)) = exported_files
        /\ Cardinality({i \in 1..Len(notes) : notes[i].text \in SkippedTexts}) = skipped_files
        /\ \A k \in 1..Len(selection_files) :
              LET rel_path == selection_files[k].rel_path
                  headers == Cardinality(PlacesOf(HeaderOf(rel_path)))
                  footers == Cardinality(PlacesOf(FooterOf(rel_path)))
                  skips == Cardinality(SkippedNotesOf(rel_path))
              IN  \/ headers = 1 /\ footers = 1 /\ skips = 0
                  \/ headers = 0 /\ footers = 0 /\ skips = 1

\* The first file was skipped as binary and the second one exported
C30_Witness ==
    /\ ReturnedOk
    /\ Len(selection_files) = 2
    /\ selection_files[1].content = <<0>>
    /\ skipped_files = 1
    /\ exported_files = 1
    /\ Cardinality(SkippedNotesOf(selection_files[1].rel_path)) = 1
    /\ Cardinality(PlacesOf(HeaderOf(selection_files[2].rel_path))) = 1

----------------------------------------------------------------------------
(* Properties of the scans, the selection and the export, checked under SpecWalk *)

Collected == run # <<>>

RootAsked == batch # <<>> /\ batch[1].ok /\ trim(batch[1].dir_path) \in {<<>>, <<46>>}

RootHasChild == read_dir(fs, <<>>) # {}

Warned(warnings, w) == \E i \in 1..Len(warnings) : warnings[i] = w

\* What C1 entails for the walker: no selected file lies under .git
NoDotGitFileSelected ==
    Collected =>
        \A i \in 1..Len(run[1].files) : ~StartsWith(run[1].files[i].rel_path, DotGitSlash)

\* C4: every SelectedFile that collect_selected_files returns is a file of the
\* snapshot (no directory) on which should_include, under the engine of that run,
\* answers Include for is_dir = false; included_files is the length of the list.
C4_SelectedAreIncludedFiles ==
    Collected =>
        /\ \A i \in 1..Len(run[1].files) :
              /\ File(run[1].files[i].rel_path) \in fs
              /\ should_include(run[1].engine, run[1].files[i].rel_path,
                                run[1].files[i].rel_path, FALSE) = "Include"
        /\ run[1].included_files = Len(run[1].files)

\* A run that selected files and excluded others
C4_Witness ==
    /\ Collected
    /\ Len(run[1].files) >= 2
    /\ run[1].excluded_files >= 1
    /\ \E e \in fs : e.is_dir

\* C8 as stated: two consecutive run_export calls with one config and one limits
\* over one snapshot write byte-identical files, whatever the enumeration orders.
C8_ExportsIdentical ==
    (first_output # <<>> /\ second_output # <<>>) => first_output = second_output

\* C9 as stated: the nodes scan_children returns for the root are, element for
\* element and in order, the children of the root node scan_root returned.
C9_RootChildrenAgree ==
    (tree # <<>> /\ RootAsked) => batch[1].nodes = tree[1].children

\* C10 as stated: with maxDepth = 0, scan_root, scan_children on the root and
\* collect_selected_files return nothing below the root, and those that report
\* warnings report "Reached maxDepth" when the root has a child.
C10_MaxDepthZeroIsEmpty ==
    limits.max_depth = 0 =>
        /\ tree # <<>> => tree[1].children = <<>>
        /\ RootAsked =>
              /\ batch[1].nodes = <<>>
              /\ RootHasChild => Warned(batch[1].warnings, MaxDepthWarning(limits))
        /\ Collected =>
              /\ run[1].files = <<>>
              /\ RootHasChild => Warned(run[1].warnings, MaxDepthWarning(limits))

\* The files the walker can reach under the depth limit
ReachableFiles ==
    LET entries == WalkBelow(fs, <<>>, limits.max_depth)
    IN  {entries[i].path : i \in {j \in 1..Len(entries) : ~entries[j].is_dir}}

\* C11 as stated: with maxFiles = N (0 and 1 included) and more than N files in
\* reach, collect_selected_files returns with included_files + excluded_files = N
\* and a "Reached maxFiles limit" warning.
C11_StopsAtNthFile ==
    (Collected /\ Cardinality(ReachableFiles) > limits.max_files) =>
        /\ run[1].included_files + run[1].excluded_files = limits.max_files
        /\ Warned(run[1].warnings, MaxFilesWarning(limits))

\* The entries the walker of collect_selected_files yields: the root, then what
\* lies below it down to maxDepth
Walked == <<Dir(<<>>)>> \o WalkBelow(fs, <<>>, limits.max_depth)

\* The loop gets to the index-th entry: fewer files than the limit stops at came
\* before it
MetByLoop(index) ==
    Cardinality({j \in 1..(index - 1) : ~Walked[j].is_dir}) < MaxOf(limits.max_files, 1)

\* A directory at depth maxDepth that has a child is among the entries met
MeetsFullDirAtMaxDepth ==
    \E i \in 1..Len(Walked) :
        /\ MetByLoop(i)
        /\ Walked[i].is_dir
        /\ Depth(Walked[i].path) = limits.max_depth
        /\ read_dir(fs, Walked[i].path) # {}

MaxDepthWarnings ==
    Cardinality({i \in 1..Len(run[1].warnings) : run[1].warnings[i] = MaxDepthWarning(limits)})

\* C26 as stated: the warnings of a run of collect_selected_files hold at most one
\* "Reached maxDepth" entry, and they hold one whenever the walker meets a directory
\* at depth maxDepth that has a child.
C26_OneMaxDepthWarning ==
    Collected =>
        /\ MaxDepthWarnings <= 1
        /\ MeetsFullDirAtMaxDepth => MaxDepthWarnings = 1

\* The root of spec scenario 1: a.txt, Beta.txt, ADir/a.txt and bDir/z.txt
MixedCaseRoot ==
    {Dir(Str("ADir")), File(Str("ADir/a.txt")), Dir(Str("bDir")), File(Str("bDir/z.txt")),
     File(Str("Beta.txt")), File(Str("a.txt"))}

\* run_export ran over that root with no rule and limits that leave out nothing
MixedCaseExported ==
    /\ fs = MixedCaseRoot
    /\ config.manual_selections = <<>>
    /\ first_output # <<>>
    /\ Len(run[1].files) = 4

\* The structure block of the output: its header, the lines, the blank line
StructureBlock(structure) ==
    write_line(StructureHeader) \o write_lines(structure) \o write_line(<<>>)

ClaimedStructure ==
    <<Str("."), Str("ADir"), Str("bDir"), Str("ADir/a.txt"), Str("Beta.txt"), Str("a.txt"),
      Str("bDir/z.txt")>>

FoldedStructure ==
    <<Str("."), Str("ADir"), Str("bDir"), Str("a.txt"), Str("ADir/a.txt"), Str("bDir/z.txt"),
      Str("Beta.txt")>>

\* C13 as stated: for a.txt, Beta.txt, ADir/a.txt and bDir/z.txt the structure
\* block lists '.', 'ADir', 'bDir', 'ADir/a.txt', 'Beta.txt', 'a.txt', 'bDir/z.txt'.
C13_StructureAsClaimed ==
    MixedCaseExported => StartsWith(first_output[1], StructureBlock(ClaimedStructure))

\* C13 amended: the structure block lists the directories first and then the files
\* by lowercased path: '.', 'ADir', 'bDir', 'a.txt', 'ADir/a.txt', 'bDir/z.txt',
\* 'Beta.txt'.
C13_StructureByFoldedPath ==
    MixedCaseExported => StartsWith(first_output[1], StructureBlock(FoldedStructure))

C13_Witness ==
    MixedCaseExported /\ StartsWith(first_output[1], StructureBlock(FoldedStructure))

\* The lines of the structure block for the selection of the run
StructureLines == build_structure_lines(run[1].files)

\* The entries the block has to list: ".", the directories the selected files lie
\* in, the selected files
StructureDirs ==
    {<<46>>} \cup UNION {AncestorsOf(run[1].files[i].rel_path) : i \in 1..Len(run[1].files)}

StructureLeaves == {run[1].files[i].rel_path : i \in 1..Len(run[1].files)}

\* C25 as stated: whatever files are selected, under directories of any name, the
\* structure block of the output lists "." first, then every directory a selected
\* file lies in and every selected file once, the directories before the files.
C25_DotFirstThenEntries ==
    first_output # <<>> =>
        /\ StartsWith(first_output[1], StructureBlock(StructureLines))
        /\ StructureLines[1] = <<46>>
        /\ {StructureLines[i] : i \in 1..Len(StructureLines)} = StructureDirs \cup StructureLeaves
        /\ Len(StructureLines) = Cardinality(StructureDirs \cup StructureLeaves)
        /\ \A i, j \in 1..Len(StructureLines) :
              (StructureLines[i] \in StructureLeaves /\ StructureLines[j] \in StructureDirs)
                  => j < i

\* scan_children was asked for a dirPath other than "" and "."
ChildAsked == batch # <<>> /\ trim(batch[1].dir_path) \notin {<<>>, <<46>>}

\* The path the dirPath asked for resolves to, None as <<>> when it names nothing
ResolvedDirPath ==
    LET trimmed == trim(batch[1].dir_path)
    IN  canonicalize(fs, << <<>> >>, IF StartsWith(trimmed, <<Slash>>) THEN SplitSlash(trimmed)
                                     ELSE RootComponents \o SplitSlash(trimmed))

Rejected(code) == ~batch[1].ok /\ batch[1].code = code /\ batch[1].nodes = <<>>

ExcludedDirs ==
    {e.path : e \in {x \in fs : x.is_dir /\ should_include(run[1].engine, x.path, x.path,
                                                            TRUE) = "Exclude"}}

BelowExcludedDir(path) == \E dir \in ExcludedDirs : Under(dir, path)

\* C18 as stated: collect_selected_files does not descend into a directory for
\* which should_include answers Exclude: no file beneath it is selected, and none
\* is counted in included_files or excluded_files.
C18_ExcludedDirPruned ==
    Collected =>
        /\ \A i \in 1..Len(run[1].files) : ~BelowExcludedDir(run[1].files[i].rel_path)
        /\ run[1].included_files + run[1].excluded_files
               <= Cardinality({path \in ReachableFiles : ~BelowExcludedDir(path)})

----------------------------------------------------------------------------
(* SpecOutput: two run_export calls given the same outputPath.  Each call   *)
(* is followed through exporter.rs:55-163 in the steps at which the other   *)
(* call can get in between: the selection, prepare_output_path, the         *)
(* exclusive create, every write that reaches the file, the return.         *)

\* The largest number of pieces in which the BufWriter of one call reaches the file
MaxWrites == 2

OutTxt == Str("out.txt")

BlankPath == Str(" ")

DotDot == Str("..")

OutputRequired == "outputPath is required"

OutputIsDirectory == "outputPath must be a file path, not a directory"

OutputExists == "outputPath already exists; overwrite is disabled by default"

CreateFailed == "Failed to create output file"

WriteFailed == "Failed to write output"

\* Path::file_name: None when the path ends in "..", else the last component
file_name(path) == IF Basename(path) = DotDot THEN <<>> ELSE <<Basename(path)>>

\* A piece of content is the call that wrote it; 0 is what was there before the calls
Existing == [kind |-> "file", content |-> <<0>>]

Directory == [kind |-> "dir", content |-> <<>>]

Absent == [kind |-> "absent", content |-> <<>>]

\* prepare_output_path without its look at what exists
prepare_output_path_unchecked(path, at_path) ==
    LET trimmed == trim(path)
    IN  IF trimmed = <<>> THEN <<OutputRequired>>
        ELSE IF file_name(trimmed) = <<>> THEN <<OutputIsDirectory>>
        ELSE <<>>

\* prepare_output_path, None for Ok(path) and Some(message) for Err
prepare_output_path(path, at_path) ==
    LET trimmed == trim(path)
    IN  IF trimmed = <<>> THEN <<OutputRequired>>
        ELSE IF file_name(trimmed) = <<>> THEN <<OutputIsDirectory>>
        ELSE IF at_path.kind # "absent"
             THEN IF at_path.kind = "dir" THEN <<OutputIsDirectory>> ELSE <<OutputExists>>
        ELSE <<>>

\* The calls that wrote to the file, 0 for what was there before them
Writers == {disk.content[i] : i \in 1..Len(disk.content)}

Written(p) == Cardinality({i \in 1..Len(disk.content) : disk.content[i] = p})

InitOutput ==
    /\ fs \in {s \in Snapshots : s # {}}
    /\ config \in {c \in WalkConfigs : c.use_gitignore /\ c.manual_selections = <<>>}
    /\ limits = DefaultLimits
    /\ IdleRules
    /\ IdleStream
    /\ IdleWalk
    /\ \/ output_path = OutTxt /\ disk \in {Absent, Existing, Directory}
       \/ output_path = BlankPath /\ disk = Absent
       \/ output_path = DotDot /\ disk = Directory
    /\ export_pc = [p \in Exporters |-> "idle"]
    /\ export_error = [p \in Exporters |-> <<>>]
    /\ seen_at_call = [p \in Exporters |-> "absent"]
    /\ effects = [p \in Exporters |-> {}]

\* run_export is called
Call(p) ==
    /\ export_pc[p] = "idle"
    /\ export_pc' = [export_pc EXCEPT ![p] = "select"]
    /\ seen_at_call' = [seen_at_call EXCEPT ![p] = disk.kind]
    /\ UNCHANGED effects
    /\ UNCHANGED <<requestVars, rulesVars, streamVars, walkVars, output_path, disk,
                   export_error>>

\* exporter.rs:55: the root of every snapshot is an existing directory, so the
\* selection is Ok
Select(p) ==
    /\ export_pc[p] = "select"
    /\ export_pc' = [export_pc EXCEPT ![p] = "prepare"]
    /\ UNCHANGED effects
    /\ UNCHANGED <<requestVars, rulesVars, streamVars, walkVars, output_path, disk,
                   export_error, seen_at_call>>

\* exporter.rs:56
PrepareOutputPath(p) ==
    /\ export_pc[p] = "prepare"
    /\ LET checked == prepare_output_path(output_path, disk)
       IN  IF checked = <<>>
           THEN export_pc' = [export_pc EXCEPT ![p] = "create"] /\ UNCHANGED export_error
           ELSE /\ export_pc' = [export_pc EXCEPT ![p] = "err"]
                /\ export_error' = [export_error EXCEPT ![p] = checked]
    /\ UNCHANGED effects
    /\ UNCHANGED <<requestVars, rulesVars, streamVars, walkVars, output_path, disk,
                   seen_at_call>>

\* OpenOptions without create_new: the file is opened whatever is there
CreateShared(p) ==
    /\ export_pc[p] = "create"
    /\ IF disk.kind # "dir"
       THEN /\ disk' = [kind |-> "file", content |-> disk.content]
            /\ export_pc' = [export_pc EXCEPT ![p] = "write"]
            /\ UNCHANGED export_error
       ELSE /\ export_pc' = [export_pc EXCEPT ![p] = "err"]
            /\ export_error' = [export_error EXCEPT ![p] = <<CreateFailed>>]
            /\ UNCHANGED disk
    /\ effects' = [effects EXCEPT ![p] = @ \cup {"create_dir_all", "create_new"}]
    /\ UNCHANGED <<requestVars, rulesVars, streamVars, walkVars, output_path, seen_at_call>>

\* exporter.rs:57-68: create_dir_all of the parent, then the open with
\* create_new(true), which creates the file or fails in one step
CreateNew(p) ==
    /\ export_pc[p] = "create"
    /\ IF disk.kind = "absent"
       THEN /\ disk' = [kind |-> "file", content |-> <<>>]
            /\ export_pc' = [export_pc EXCEPT ![p] = "write"]
            /\ UNCHANGED export_error
       ELSE /\ export_pc' = [export_pc EXCEPT ![p] = "err"]
            /\ export_error' = [export_error EXCEPT ![p] = <<CreateFailed>>]
            /\ UNCHANGED disk
    /\ effects' = [effects EXCEPT ![p] = @ \cup {"create_dir_all", "create_new"}]
    /\ UNCHANGED <<requestVars, rulesVars, streamVars, walkVars, output_path, seen_at_call>>

\* exporter.rs:69-153: the BufWriter passes one more piece to the file
WritePiece(p) ==
    /\ export_pc[p] = "write"
    /\ Written(p) < MaxWrites
    /\ disk' = [disk EXCEPT !.content = Append(@, p)]
    /\ UNCHANGED effects
    /\ UNCHANGED <<requestVars, rulesVars, streamVars, walkVars, output_path, export_pc,
                   export_error, seen_at_call>>

\* exporter.rs:69-156: a write, a flush or a probe read fails and `?` returns
WriteFails(p) ==
    /\ export_pc[p] = "write"
    /\ export_pc' = [export_pc EXCEPT ![p] = "err"]
    /\ export_error' = [export_error EXCEPT ![p] = <<WriteFailed>>]
    /\ UNCHANGED effects
    /\ UNCHANGED <<requestVars, rulesVars, streamVars, walkVars, output_path, disk,
                   seen_at_call>>

\* exporter.rs:154-163: the last flush is done and Ok(ExportResult) returned
Return(p) ==
    /\ export_pc[p] = "write"
    /\ Written(p) >= 1
    /\ export_pc' = [export_pc EXCEPT ![p] = "ok"]
    /\ UNCHANGED effects
    /\ UNCHANGED <<requestVars, rulesVars, streamVars, walkVars, output_path, disk,
                   export_error, seen_at_call>>

NextOutput ==
    \E p \in Exporters :
        \/ Call(p)
        \/ Select(p)
        \/ PrepareOutputPath(p)
        \/ CreateNew(p)
        \/ WritePiece(p)
        \/ WriteFails(p)
        \/ Return(p)

SpecOutput == InitOutput /\ [][NextOutput]_vars

----------------------------------------------------------------------------
(* SpecCompile: one run_export call followed through collect_selected_files: the
   globs are compiled, the .gitignore files discovered, the selection walked; then
   the output path is prepared and the file created and written *)

E_RULE_INVALID_GLOB == "E_RULE_INVALID_GLOB"

\* format!("[{code}] {}", message)
coded(code, message) == "[" \o code \o "] " \o message

InvalidGlob == coded(E_RULE_INVALID_GLOB, "Invalid glob '{pattern}': {e}")

\* Glob::new(pattern) is an Err: a '[' that no ']' closes
glob_new_fails(pattern) ==
    \E i \in 1..Len(pattern) :
        pattern[i] = 91 /\ \A j \in (i + 1)..Len(pattern) : pattern[j] # 93

\* compile_globset(patterns) is an Err
compile_globset_fails(patterns) == \E i \in 1..Len(patterns) : glob_new_fails(patterns[i])

UnclosedClass == Str("src/[ab")

CompileConfigs ==
    [ use_gitignore : BOOLEAN,
      include_globs : {<<>>, <<Str("*.ts")>>, <<Str("*.ts"), UnclosedClass>>},
      exclude_globs : {<<>>, <<Str("bDir/*")>>, <<UnclosedClass>>},
      include_extensions : {<<>>},
      exclude_extensions : {<<>>},
      max_file_size_kb : {256},
      large_file_strategy : {"Truncate"},
      manual_selections : {<<>>} ]

InitCompile ==
    /\ fs \in RuleSnapshots
    /\ config \in CompileConfigs
    /\ limits = DefaultLimits
    /\ IdleRules
    /\ IdleStream
    /\ IdleWalk
    /\ output_path = OutTxt
    /\ disk = Absent
    /\ export_pc = [p \in Exporters |-> "idle"]
    /\ export_error = [p \in Exporters |-> <<>>]
    /\ seen_at_call = [p \in Exporters |-> "absent"]
    /\ effects = [p \in Exporters |-> {}]

\* from_config walking the root for .gitignore files before it compiles the globs
CompileGlobsAfterDiscovery(p) ==
    /\ export_pc[p] = "select"
    /\ effects' = [effects EXCEPT ![p] = IF config.use_gitignore THEN @ \cup {"gitignore walk"}
                                         ELSE @]
    /\ IF compile_globset_fails(config.include_globs)
          \/ compile_globset_fails(config.exclude_globs)
       THEN /\ export_pc' = [export_pc EXCEPT ![p] = "err"]
            /\ export_error' = [export_error EXCEPT ![p] = <<InvalidGlob>>]
       ELSE /\ export_pc' = [export_pc EXCEPT ![p] = "discover"]
            /\ UNCHANGED export_error
    /\ UNCHANGED <<requestVars, rulesVars, streamVars, walkVars, output_path, disk,
                   seen_at_call>>

\* selection.rs:26-28 and rules.rs:31-32: the root is canonicalized, from_config
\* compiles the include globs and the exclude globs, and `?` returns the Err
CompileGlobs(p) ==
    /\ export_pc[p] = "select"
    /\ IF compile_globset_fails(config.include_globs)
          \/ compile_globset_fails(config.exclude_globs)
       THEN /\ export_pc' = [export_pc EXCEPT ![p] = "err"]
            /\ export_error' = [export_error EXCEPT ![p] = <<InvalidGlob>>]
       ELSE /\ export_pc' = [export_pc EXCEPT ![p] = "discover"]
            /\ UNCHANGED export_error
    /\ UNCHANGED <<requestVars, rulesVars, streamVars, walkVars, output_path, disk,
                   seen_at_call, effects>>

\* rules.rs:33-51: the extensions, the manual selections, and with use_gitignore
\* the walk of the root that collects the .gitignore files
DiscoverGitignore(p) ==
    /\ export_pc[p] = "discover"
    /\ \E order \in DiscoveryOrders(fs) : engine' = <<from_config(fs, config, order)>>
    /\ effects' = [effects EXCEPT ![p] = IF config.use_gitignore THEN @ \cup {"gitignore walk"}
                                         ELSE @]
    /\ export_pc' = [export_pc EXCEPT ![p] = "walk"]
    /\ UNCHANGED <<requestVars, query, decision, streamVars, walkVars, output_path, disk,
                   export_error, seen_at_call>>

\* selection.rs:30-109: the walk of the root under that engine
WalkSelection(p) ==
    /\ export_pc[p] = "walk"
    /\ \E order \in DiscoveryOrders(fs) :
          LET selected == collect_selected_files(fs, config, limits, order)
          IN  /\ selected.engine = engine[1]
              /\ run' = <<selected>>
    /\ effects' = [effects EXCEPT ![p] = @ \cup {"selection walk"}]
    /\ export_pc' = [export_pc EXCEPT ![p] = "prepare"]
    /\ UNCHANGED <<requestVars, rulesVars, streamVars, tree, batch, first_output,
                   second_output, output_path, disk, export_error, seen_at_call>>

NextCompile ==
    \/ Call(1)
    \/ CompileGlobs(1)
    \/ DiscoverGitignore(1)
    \/ WalkSelection(1)
    \/ PrepareOutputPath(1)
    \/ CreateNew(1)
    \/ WritePiece(1)
    \/ WriteFails(1)
    \/ Return(1)

SpecCompile == InitCompile /\ [][NextCompile]_vars

----------------------------------------------------------------------------
(* Properties of SpecOutput *)

Returned(p) == export_pc[p] \in {"ok", "err"}

Failed(p, message) == export_pc[p] = "err" /\ export_error[p] = <<message>>

\* Nothing of the calls is in what was at the path before them
Untouched(before) == disk = before

InitiallyAbsent == output_path = OutTxt /\ disk.kind # "dir" /\ 0 \notin Writers

\* C16: of two concurrent run_export calls on one output path that did not exist,
\* at most one returns Ok, the other returns an error, and every piece of the file
\* was written by the call that created it.
C16_OnlyOneWins ==
    InitiallyAbsent =>
        /\ ~(export_pc[1] = "ok" /\ export_pc[2] = "ok")
        /\ Cardinality(Writers) <= 1
        /\ \A p \in Exporters : export_pc[p] = "ok" => Writers = {p}
        /\ \A p \in Exporters : export_pc[p] \in {"write", "ok"} => Writers \subseteq {p}

\* Call 2 passed the existence check, then lost the exclusive create to call 1
C16_Witness ==
    /\ InitiallyAbsent
    /\ seen_at_call[2] = "absent"
    /\ export_pc[1] = "ok"
    /\ Failed(2, CreateFailed)
    /\ Written(1) = MaxWrites

----------------------------------------------------------------------------
(* Properties of SpecCompile *)

InvalidGlobGiven ==
    compile_globset_fails(config.include_globs) \/ compile_globset_fails(config.exclude_globs)

\* C28: when an include glob or an exclude glob of the config is invalid, the call
\* begins no walk (not the one for .gitignore files, not the one of the
\* selection), creates neither the output file nor its parent directories, and
\* returns the error that carries E_RULE_INVALID_GLOB.
C28_InvalidGlobStopsTheRun ==
    InvalidGlobGiven =>
        /\ effects[1] = {}
        /\ disk = Absent
        /\ Returned(1) => Failed(1, coded(E_RULE_INVALID_GLOB, "Invalid glob '{pattern}': {e}"))

\* The call returned on an invalid exclude glob, with use_gitignore on and a
\* .gitignore in the root
C28_Witness ==
    /\ compile_globset_fails(config.exclude_globs)
    /\ config.use_gitignore
    /\ File(DotGitignore) \in fs
    /\ Failed(1, InvalidGlob)
    /\ effects[1] = {}

====
